-------------------------- MODULE GalleryCopyProofs --------------------------
(***************************************************************************)
(* Proofs about GalleryCopy, for any number of copies, Copiers, Workers,   *)
(* attempts and events: a copy has one outcome, with which its             *)
(* reservation, its hold on the source, its Artifact and its attempts      *)
(* agree, and that outcome is final.                                       *)
(***************************************************************************)
EXTENDS GalleryCopy, FiniteSetTheorems, TLAPS

States == {"none", "admitted", "accepted", "processing", "ready", "failed", "cancelled",
           "indeterminate"}
JobRow ==
    [state : States, started : BOOLEAN, worker : Workers \union {NoWorker}, expired : BOOLEAN,
     fence : Nat, attempts : Nat]
AttemptStates == {"none", "running", "succeeded", "failed", "cancelled", "lease_lost"}
Claiming == {"copying", "copied", "blocked", "cleared", "failing"}
WorkerRow ==
    [step : {"idle", "recovered"} \union Claiming, job : Jobs \union {NoJob}, fence : Nat,
     code : {"transient", "invalid_input"}]

\* Every variable the outcome of a copy depends on keeps its type.
TypesOK ==
    /\ job \in [Jobs -> JobRow]
    /\ attempt \in [Jobs -> [Fences -> AttemptStates]]
    /\ reservation \in [Jobs -> {"none", "held", "committed", "released"}]
    /\ retention \in [Jobs -> {"none", "held", "released"}]
    /\ artifact \in [Jobs -> Nat]
    /\ worker \in [Workers -> WorkerRow]

\* What the rows of a copy hold follows from its state alone.
Settled(j) ==
    LET s == job[j].state
        rows(r, t) == reservation[j] = r /\ retention[j] = t IN
    /\ s \in {"none", "admitted"} => rows("none", "none")
    /\ s \in {"accepted", "processing", "indeterminate"} => rows("held", "held")
    /\ s = "ready" => rows("committed", "released")
    /\ s \in {"failed", "cancelled"} => rows("released", "released")
    /\ (s = "ready") = (artifact[j] # 0)
    /\ (s = "processing") = (job[j].worker # NoWorker)
    /\ \A n \in Fences : attempt[j][n] = "running" => s = "processing" /\ job[j].attempts = n

\* A Worker at work has a claim, and one inside the commit transaction holds the lease.
Held(w) ==
    /\ worker[w].step \in Claiming => worker[w].job \in Jobs /\ worker[w].fence # 0
    /\ worker[w].step \in Holding => HoldsLease(w)

CopyInv ==
    /\ TypesOK
    /\ \A j \in Jobs : Settled(j)
    /\ \A w \in Workers : Held(w)

-----------------------------------------------------------------------------
LEMMA InitInv == Init => CopyInv
<1> SUFFICES ASSUME Init PROVE CopyInv
  OBVIOUS
<1>1. TypesOK
  BY DEF Init, TypesOK, NewJob, Idle, JobRow, WorkerRow, States, AttemptStates
<1>2. \A j \in Jobs : Settled(j)
  BY DEF Init, Settled, NewJob
<1>3. \A w \in Workers : Held(w)
  BY DEF Init, Held, Idle, Claiming, Holding
<1>4. QED
  BY <1>1, <1>2, <1>3 DEF CopyInv

\* The rows of one copy change together; nobody else holds its row.
LEMMA OneCopy ==
    ASSUME CopyInv, TypesOK', NEW j \in Jobs,
           \A i \in Jobs \ {j} :
              /\ job'[i] = job[i] /\ attempt'[i] = attempt[i] /\ reservation'[i] = reservation[i]
              /\ retention'[i] = retention[i] /\ artifact'[i] = artifact[i],
           Settled(j)',
           \A w \in Workers :
              worker'[w].step \in Claiming => worker'[w].job \in Jobs /\ worker'[w].fence # 0,
           \A w \in Workers : worker'[w].step \in Holding =>
              \/ worker'[w] = worker[w] /\ worker[w].job # j
              \/ HoldsLease(w)'
    PROVE  CopyInv'
<1>1. \A i \in Jobs : Settled(i)'
  BY DEF CopyInv, Settled
<1>2. ASSUME NEW w \in Workers PROVE Held(w)'
  <2>1. CASE worker'[w] = worker[w] /\ worker[w].job # j
    <3>1. worker[w].step \in Holding => worker[w].job \in Jobs /\ HoldsLease(w)
      BY DEF CopyInv, Held, Claiming, Holding
    <3>2. QED
      BY <2>1, <3>1 DEF Held, HoldsLease
  <2>2. QED
    BY <2>1 DEF Held
<1>3. QED
  BY <1>1, <1>2 DEF CopyInv

\* Nothing of a copy and no Worker changes.
LEMMA SameRows ==
    ASSUME CopyInv, UNCHANGED <<job, attempt, reservation, retention, artifact, worker>>
    PROVE  CopyInv'
BY DEF CopyInv, TypesOK, Settled, Held, HoldsLease
-----------------------------------------------------------------------------
(* The API. *)

LEMMA RequestInv ==
    ASSUME CopyInv, NEW j \in Jobs, AdmitCopy(j) \/ AcceptCopy(j) \/ RefuseCopy(j) \/ LeaseExpires(j)
    PROVE  CopyInv'
<1>1. TypesOK'
  <2>1. NewJob \in JobRow
    BY DEF NewJob, JobRow, States
  <2>2. \A s \in States : [job[j] EXCEPT !.state = s] \in JobRow
    BY DEF CopyInv, TypesOK, JobRow
  <2>3. [job[j] EXCEPT !.expired = TRUE] \in JobRow
    BY DEF CopyInv, TypesOK, JobRow
  <2>4. job' \in [Jobs -> JobRow]
    BY <2>1, <2>2, <2>3 DEF CopyInv, TypesOK, AdmitCopy, AcceptCopy, RefuseCopy, LeaseExpires,
         States
  <2>5. QED
    BY <2>4 DEF CopyInv, TypesOK, AdmitCopy, AcceptCopy, RefuseCopy, LeaseExpires, quota
<1>2. Settled(j)'
  BY DEF CopyInv, TypesOK, Settled, AdmitCopy, AcceptCopy, RefuseCopy, LeaseExpires, NewJob,
       JobRow, quota
<1>3. \A w \in Workers : worker'[w] = worker[w]
  BY DEF AdmitCopy, AcceptCopy, RefuseCopy, LeaseExpires
<1>4. \A w \in Workers : worker[w].step \in Holding /\ worker[w].job = j => HoldsLease(w)'
  BY <1>3 DEF CopyInv, TypesOK, Held, HoldsLease, AdmitCopy, AcceptCopy, RefuseCopy, LeaseExpires,
       JobRow
<1>5. \A i \in Jobs \ {j} :
        /\ job'[i] = job[i] /\ attempt'[i] = attempt[i] /\ reservation'[i] = reservation[i]
        /\ retention'[i] = retention[i] /\ artifact'[i] = artifact[i]
  BY DEF CopyInv, TypesOK, AdmitCopy, AcceptCopy, RefuseCopy, LeaseExpires, quota
<1>6. QED
  BY <1>1, <1>2, <1>3, <1>4, <1>5, OneCopy DEF CopyInv, Held

LEMMA RollbackInv ==
    ASSUME CopyInv, RollbackCopies
    PROVE  CopyInv'
<1> DEFINE row(j) == [Unleased(job[j], "cancelled") EXCEPT !.fence = @ + 1]
<1>row. ASSUME NEW j \in Jobs
        PROVE  row(j) \in JobRow /\ row(j).state = "cancelled" /\ row(j).worker = NoWorker
  <2>1. job[j] \in JobRow
    BY DEF CopyInv, TypesOK
  <2>2. Unleased(job[j], "cancelled") \in JobRow /\ Unleased(job[j], "cancelled").state = "cancelled"
        /\ Unleased(job[j], "cancelled").worker = NoWorker
    BY <2>1 DEF Unleased, JobRow, States
  <2> HIDE DEF row
  <2>3. QED
    BY <2>2 DEF row, JobRow
<1>job. job' = [j \in Jobs |-> IF j \in Cancellable THEN row(j) ELSE job[j]]
  BY DEF RollbackCopies
<1> HIDE DEF row
<1>1. TypesOK'
  <2>1. job' \in [Jobs -> JobRow]
    BY <1>row, <1>job DEF CopyInv, TypesOK
  <2>2. /\ attempt' \in [Jobs -> [Fences -> AttemptStates]]
        /\ reservation' \in [Jobs -> {"none", "held", "committed", "released"}]
        /\ retention' \in [Jobs -> {"none", "held", "released"}]
    BY DEF CopyInv, TypesOK, RollbackCopies, AttemptStates
  <2>3. QED
    BY <2>1, <2>2 DEF CopyInv, TypesOK, RollbackCopies
<1>2. ASSUME NEW j \in Jobs PROVE Settled(j)'
  <2>1. CASE j \in Cancellable
    <3>1. job'[j].state = "cancelled" /\ job'[j].worker = NoWorker
      BY <1>row, <1>job, <2>1
    <3>2. job[j].state \in {"accepted", "processing"} /\ reservation[j] = "held" /\ artifact[j] = 0
      BY <2>1 DEF Cancellable, Waiting, CopyInv, Settled
    <3>3. reservation'[j] = "released" /\ retention'[j] = "released" /\ artifact'[j] = 0
      BY <2>1, <3>2 DEF RollbackCopies
    <3>4. \A n \in Fences : attempt'[j][n] # "running"
      BY <2>1 DEF RollbackCopies
    <3>5. QED
      BY <3>1, <3>3, <3>4 DEF Settled
  <2>2. CASE job[j].state = "cancelled"
    BY <2>2 DEF CopyInv, TypesOK, Settled, RollbackCopies, Unleased, JobRow, Cancellable, Waiting,
         AttemptStates
  <2>3. CASE j \notin Cancellable /\ job[j].state # "cancelled"
    BY <2>3 DEF CopyInv, TypesOK, Settled, RollbackCopies
  <2>4. QED
    BY <2>1, <2>2, <2>3
<1>3. ASSUME NEW w \in Workers PROVE Held(w)'
  <2>1. worker[w].step \in Holding => worker[w].job \in Jobs /\ worker[w].job \notin Cancellable
    BY DEF RollbackCopies, RowLocked, CopyInv, Held, Claiming, Holding
  <2>2. QED
    BY <2>1 DEF RollbackCopies, CopyInv, Held, HoldsLease
<1>4. QED
  BY <1>1, <1>2, <1>3 DEF CopyInv

\* Reconciliation finds nothing to settle.
LEMMA DispatchInv ==
    ASSUME CopyInv, Dispatch
    PROVE  CopyInv'
<1>1. CASE ObserveReadiness
  BY <1>1, SameRows DEF ObserveReadiness, quota
<1>2. CASE ReconcileCopies
  <2>1. Unsettled = {}
    BY DEF Unsettled, Final, CopyInv, Settled
  <2>2. QED
    BY <1>2, <2>1, SameRows DEF ReconcileCopies, quota
<1>3. QED
  BY <1>1, <1>2, RollbackInv DEF Dispatch
-----------------------------------------------------------------------------
(* The Worker lane. *)

LEMMA RecoverInv ==
    ASSUME CopyInv, NEW w \in Workers, RecoverLeases(w)
    PROVE  CopyInv'
<1>1. \A j \in Jobs : Recovered(j) \in JobRow
  BY DEF CopyInv, TypesOK, Recovered, Unleased, JobRow, States
<1>2. TypesOK'
  BY <1>1 DEF CopyInv, TypesOK, RecoverLeases, Do, WorkerRow, AttemptStates, quota
<1>3. ASSUME NEW j \in Jobs PROVE Settled(j)'
  <2>1. CASE j \in Expired
    <3>1. /\ job'[j].state \in {"accepted", "indeterminate"} /\ job'[j].worker = NoWorker
      BY <2>1 DEF RecoverLeases, Recovered, Unleased, CopyInv, TypesOK, JobRow
    <3>2. job[j].state = "processing"
      BY <2>1 DEF Expired
    <3>3. \A n \in Fences : attempt'[j][n] # "running"
      BY <2>1 DEF RecoverLeases
    <3>4. QED
      BY <3>1, <3>2, <3>3 DEF RecoverLeases, CopyInv, Settled, quota
  <2>2. CASE j \notin Expired
    BY <2>2 DEF RecoverLeases, CopyInv, TypesOK, Settled, quota
  <2>3. QED
    BY <2>1, <2>2
<1>4. ASSUME NEW v \in Workers PROVE Held(v)'
  <2>1. v = w => worker'[v].step = "recovered"
    BY DEF RecoverLeases, Do, CopyInv, TypesOK, WorkerRow
  <2>2. v # w => worker'[v] = worker[v]
    BY DEF RecoverLeases, Do, CopyInv, TypesOK
  <2>3. worker[v].step \in Holding => worker[v].job \in Jobs /\ worker[v].job \notin Expired
    BY DEF RecoverLeases, RowLocked, CopyInv, Held, Claiming, Holding
  <2>4. QED
    BY <2>1, <2>2, <2>3 DEF RecoverLeases, CopyInv, Held, HoldsLease, Claiming, Holding
<1>5. QED
  BY <1>2, <1>3, <1>4 DEF CopyInv

LEMMA ClaimInv ==
    ASSUME CopyInv, NEW w \in Workers, NEW j \in Jobs, ClaimCopy(w, j)
    PROVE  CopyInv'
<1> DEFINE row == [job[j] EXCEPT !.state = "processing", !.started = TRUE, !.worker = w,
                                 !.expired = FALSE, !.fence = @ + 1, !.attempts = @ + 1]
           mine == [Idle EXCEPT !.step = "copying", !.job = j, !.fence = row.fence]
<1>0. job[j] \in JobRow
  BY DEF CopyInv, TypesOK
<1>1. /\ row \in JobRow /\ row.state = "processing" /\ row.worker = w
      /\ row.fence # 0 /\ row.attempts \in Nat /\ row.fence \in Nat
  <2>1. job[j].fence \in Nat /\ job[j].attempts \in Nat
    BY <1>0 DEF JobRow
  <2>2. job[j].fence + 1 \in Nat /\ job[j].fence + 1 # 0 /\ job[j].attempts + 1 \in Nat
    BY <2>1
  <2>3. row.fence = job[j].fence + 1 /\ row.attempts = job[j].attempts + 1
    BY <1>0 DEF JobRow
  <2>4. row \in JobRow /\ row.state = "processing" /\ row.worker = w
    BY <1>0, <2>2 DEF JobRow, States
  <2>5. QED
    BY <2>2, <2>3, <2>4
<1>2. mine \in WorkerRow /\ mine.step = "copying" /\ mine.job = j /\ mine.fence # 0
  BY <1>1 DEF Idle, WorkerRow, Claiming
<1>3. /\ job' = [job EXCEPT ![j] = row] /\ worker' = [worker EXCEPT ![w] = mine]
      /\ attempt' = [attempt EXCEPT ![j][row.attempts] = "running"]
      /\ job[j].state = "accepted"
      /\ UNCHANGED <<reservation, retention, artifact>>
  BY DEF ClaimCopy, quota
<1> HIDE DEF row, mine
<1>4. TypesOK'
  BY <1>1, <1>2, <1>3 DEF CopyInv, TypesOK, AttemptStates
<1>5. Settled(j)'
  BY <1>1, <1>3, NoneAssumption DEF CopyInv, TypesOK, Settled
<1>6. \A v \in Workers : worker'[v] = IF v = w THEN mine ELSE worker[v]
  BY <1>3 DEF CopyInv, TypesOK
<1>7. \A v \in Workers : worker[v].step \in Holding => worker[v].job # j
  BY <1>3 DEF CopyInv, Held, HoldsLease
<1>8. \A i \in Jobs \ {j} :
        /\ job'[i] = job[i] /\ attempt'[i] = attempt[i] /\ reservation'[i] = reservation[i]
        /\ retention'[i] = retention[i] /\ artifact'[i] = artifact[i]
  BY <1>3 DEF CopyInv, TypesOK
<1>9. QED
  BY <1>2, <1>4, <1>5, <1>6, <1>7, <1>8, OneCopy DEF CopyInv, Held, Claiming, Holding

\* Only what the Worker remembers changes, and no lease is taken for granted.
LEMMA MoveInv ==
    ASSUME CopyInv, NEW w \in Workers, NEW row \in WorkerRow,
           row.step \in Claiming => row.job \in Jobs /\ row.fence # 0,
           row.step \in Holding => row.job = worker[w].job /\ row.fence = worker[w].fence /\ HoldsLease(w),
           worker' = [worker EXCEPT ![w] = row],
           UNCHANGED <<job, attempt, reservation, retention, artifact>>
    PROVE  CopyInv'
<1>1. TypesOK'
  BY DEF CopyInv, TypesOK
<1>2. \A v \in Workers : Held(v)'
  BY DEF CopyInv, TypesOK, Held, HoldsLease
<1>3. QED
  BY <1>1, <1>2 DEF CopyInv, Settled

LEMMA WorkInv ==
    ASSUME CopyInv, NEW w \in Workers,
           \/ ClaimNothing(w) \/ BeginCommit(w) \/ CommitRaises(w) \/ Crash(w)
           \/ \E code \in {"transient", "invalid_input"} : CopyFails(w, code)
    PROVE  CopyInv'
<1> USE DEF quota
<1>1. worker[w] \in WorkerRow /\ Held(w)
  BY DEF CopyInv, TypesOK
<1>2. \A s \in {"idle", "recovered"} \union Claiming :
        /\ [worker[w] EXCEPT !.step = s] \in WorkerRow /\ [worker[w] EXCEPT !.step = s].step = s
        /\ [worker[w] EXCEPT !.step = s].job = worker[w].job
        /\ [worker[w] EXCEPT !.step = s].fence = worker[w].fence
  BY <1>1 DEF WorkerRow
<1>3. CASE ClaimNothing(w)
  <2>1. worker' = [worker EXCEPT ![w] = [worker[w] EXCEPT !.step = "idle"]]
    BY <1>3 DEF ClaimNothing, Do
  <2>2. UNCHANGED <<job, attempt, reservation, retention, artifact>>
    BY <1>3 DEF ClaimNothing
  <2>3. QED
    BY <1>2, <2>1, <2>2, MoveInv DEF Claiming, Holding
<1>4. CASE BeginCommit(w)
  <2>1. PICK s \in Claiming : /\ worker' = [worker EXCEPT ![w].step = s]
                              /\ s \in Holding => HoldsLease(w)
    BY <1>4 DEF BeginCommit, Do, Claiming, Holding
  <2> DEFINE row == [worker[w] EXCEPT !.step = s]
  <2>2. row \in WorkerRow /\ row.step = s /\ row.job = worker[w].job /\ row.fence = worker[w].fence
    BY <1>2
  <2>3. worker' = [worker EXCEPT ![w] = row]
    BY <2>1
  <2>4. worker[w].job \in Jobs /\ worker[w].fence # 0
        /\ UNCHANGED <<job, attempt, reservation, retention, artifact>>
    BY <1>1, <1>4 DEF BeginCommit, Held, Claiming
  <2> HIDE DEF row
  <2>5. QED
    BY <2>1, <2>2, <2>3, <2>4, MoveInv
<1>5. CASE CommitRaises(w)
  BY <1>1, <1>2, <1>5, MoveInv DEF CommitRaises, Do, Held, Claiming, Holding
<1>6. CASE Crash(w)
  <2>1. Idle \in WorkerRow /\ Idle.step = "idle"
    BY DEF Idle, WorkerRow
  <2>2. QED
    BY <1>6, <2>1, MoveInv DEF Crash, Claiming, Holding
<1>7. ASSUME NEW code \in {"transient", "invalid_input"}, CopyFails(w, code) PROVE CopyInv'
  <2> DEFINE row == [worker[w] EXCEPT !.step = "failing", !.code = code]
  <2>1. row \in WorkerRow /\ row.step = "failing" /\ row.job = worker[w].job /\ row.fence = worker[w].fence
    BY <1>1 DEF WorkerRow, Claiming
  <2>2. worker' = [worker EXCEPT ![w] = row]
    BY <1>7 DEF CopyFails, CopyInv, TypesOK
  <2> HIDE DEF row
  <2>3. QED
    BY <1>1, <1>7, <2>1, <2>2, MoveInv DEF CopyFails, Held, Claiming, Holding
<1>8. QED
  BY <1>3, <1>4, <1>5, <1>6, <1>7

LEMMA CopyFilesInv ==
    ASSUME CopyInv, NEW w \in Workers, CopyFiles(w)
    PROVE  CopyInv'
<1>0. PICK j \in Jobs : worker[w].job = j
  BY DEF CopyFiles, CopyInv, Held, Claiming
<1>1. worker[w].fence # 0 /\ job[j] \in JobRow /\ worker[w] \in WorkerRow
  BY DEF CopyFiles, CopyInv, TypesOK, Held, Claiming
<1>2. /\ job' = [job EXCEPT ![j].expired = FALSE] /\ worker' = [worker EXCEPT ![w].step = "copied"]
      /\ UNCHANGED <<attempt, reservation, retention, artifact>>
  BY <1>0 DEF CopyFiles, Do, quota
<1>3. TypesOK'
  BY <1>1, <1>2 DEF CopyInv, TypesOK, JobRow, WorkerRow, Claiming
<1>4. /\ job'[j].state = job[j].state /\ job'[j].worker = job[j].worker
      /\ job'[j].fence = job[j].fence /\ job'[j].attempts = job[j].attempts
  BY <1>1, <1>2 DEF CopyInv, TypesOK, JobRow
<1>5. Settled(j)'
  <2>1. Settled(j)
    BY <1>1 DEF CopyInv
  <2>2. QED
    BY <1>2, <1>4, <2>1 DEF Settled
<1>6. \A v \in Workers : /\ v # w => worker'[v] = worker[v]
                         /\ worker'[v].job = worker[v].job /\ worker'[v].fence = worker[v].fence
  BY <1>2 DEF CopyInv, TypesOK, WorkerRow
<1>7. worker'[w].step = "copied"
  BY <1>1, <1>2 DEF CopyInv, TypesOK, WorkerRow
<1>8. \A v \in Workers : worker'[v].step \in Holding /\ worker[v].job = j => HoldsLease(v)'
  BY <1>0, <1>1, <1>4, <1>6, <1>7 DEF CopyInv, Held, HoldsLease, Holding
<1>9. \A v \in Workers :
         worker'[v].step \in Claiming => worker'[v].job \in Jobs /\ worker'[v].fence # 0
  BY <1>0, <1>1, <1>6, <1>7 DEF CopyInv, Held, Claiming
<1>10. \A i \in Jobs \ {j} : job'[i] = job[i]
  BY <1>2 DEF CopyInv, TypesOK
<1>11. QED
  <2>1. \A v \in Workers : worker'[v].step \in Holding =>
           \/ worker'[v] = worker[v] /\ worker[v].job # j
           \/ HoldsLease(v)'
    BY <1>6, <1>7, <1>8 DEF Holding
  <2>2. \A i \in Jobs \ {j} :
          /\ job'[i] = job[i] /\ attempt'[i] = attempt[i] /\ reservation'[i] = reservation[i]
          /\ retention'[i] = retention[i] /\ artifact'[i] = artifact[i]
    BY <1>2, <1>10
  <2>3. QED
    BY <1>1, <1>3, <1>5, <1>9, <2>1, <2>2, OneCopy

\* A transaction that ends a copy, or gives it back, under the Worker's own claim.
LEMMA EndInv ==
    ASSUME CopyInv, NEW w \in Workers, NEW j \in Jobs, worker[w].job = j,
           job[j].state = "processing", job[j].worker = w,
           NEW row \in JobRow, row.worker = NoWorker, row.state # "processing",
           NEW ended \in {"succeeded", "failed", "cancelled"},
           job' = [job EXCEPT ![j] = row],
           attempt' = [attempt EXCEPT ![j][job[j].attempts] = ended],
           reservation' \in [Jobs -> {"none", "held", "committed", "released"}],
           retention' \in [Jobs -> {"none", "held", "released"}],
           artifact' \in [Jobs -> Nat],
           \A i \in Jobs \ {j} : /\ reservation'[i] = reservation[i]
                                 /\ retention'[i] = retention[i] /\ artifact'[i] = artifact[i],
           \/ /\ row.state = "accepted"
              /\ reservation'[j] = "held" /\ retention'[j] = "held" /\ artifact'[j] = 0
           \/ /\ row.state = "ready"
              /\ reservation'[j] = "committed" /\ retention'[j] = "released" /\ artifact'[j] # 0
           \/ /\ row.state \in {"failed", "cancelled"}
              /\ reservation'[j] = "released" /\ retention'[j] = "released" /\ artifact'[j] = 0,
           NEW mine \in WorkerRow, mine.step \in {"idle", "failing"},
           mine.step = "failing" => mine.job = j /\ mine.fence # 0,
           worker' = [worker EXCEPT ![w] = mine]
    PROVE  CopyInv'
<1>1. TypesOK'
  BY DEF CopyInv, TypesOK, AttemptStates
<1>2. \A n \in Fences : attempt'[j][n] # "running"
  BY DEF CopyInv, TypesOK, Settled
<1>3. job'[j] = row
  BY DEF CopyInv, TypesOK
<1>4. Settled(j)'
  BY <1>2, <1>3 DEF Settled
<1>5. \A v \in Workers : worker'[v] = IF v = w THEN mine ELSE worker[v]
  BY DEF CopyInv, TypesOK
<1>6. \A v \in Workers : v # w /\ worker[v].step \in Holding => worker[v].job # j
  BY DEF CopyInv, Held, HoldsLease
<1>7. \A v \in Workers : worker'[v].step \in Claiming => worker'[v].job \in Jobs /\ worker'[v].fence # 0
  BY <1>5 DEF CopyInv, Held, Claiming
<1>8. \A i \in Jobs \ {j} : job'[i] = job[i] /\ attempt'[i] = attempt[i]
  BY DEF CopyInv, TypesOK
<1>9. QED
  BY <1>1, <1>4, <1>5, <1>6, <1>7, <1>8, OneCopy DEF Holding

LEMMA SettleRows ==
    ASSUME CopyInv, NEW j \in Jobs, job[j].state = "processing",
           NEW outcome \in {"committed", "released"}, Settle(j, outcome)
    PROVE  /\ reservation' = [reservation EXCEPT ![j] = outcome]
           /\ retention' = [retention EXCEPT ![j] = "released"]
<1>1. reservation[j] = "held"
  BY DEF CopyInv, Settled
<1>2. QED
  BY <1>1 DEF Settle

LEMMA FinishInv ==
    ASSUME CopyInv, NEW w \in Workers, CommitCancelled(w) \/ CommitReady(w) \/ RecordFailure(w)
    PROVE  CopyInv'
<1>0. PICK j \in Jobs : worker[w].job = j
  BY DEF CommitCancelled, CommitReady, RecordFailure, CopyInv, Held, Claiming, Holding
<1>1. /\ worker[w].fence # 0 /\ worker[w].fence \in Nat
      /\ job[j] \in JobRow /\ worker[w] \in WorkerRow
  BY <1>0 DEF CommitCancelled, CommitReady, RecordFailure, CopyInv, TypesOK, Held, Claiming,
       Holding, WorkerRow
<1>2. Idle \in WorkerRow /\ Idle.step = "idle"
  BY DEF Idle, WorkerRow
<1>3. \A s \in States : /\ Unleased(job[j], s) \in JobRow
                        /\ Unleased(job[j], s).state = s /\ Unleased(job[j], s).worker = NoWorker
  BY <1>1 DEF Unleased, JobRow
<1>4. CASE CommitCancelled(w)
  <2>1. job[j].state = "processing" /\ job[j].worker = w
    BY <1>0, <1>4 DEF CommitCancelled, CopyInv, Held, HoldsLease, Holding
  <2>2. /\ job' = [job EXCEPT ![j] = Unleased(job[j], "cancelled")]
        /\ attempt' = [attempt EXCEPT ![j][job[j].attempts] = "cancelled"]
        /\ Settle(j, "released") /\ worker' = [worker EXCEPT ![w] = Idle] /\ artifact' = artifact
    BY <1>0, <1>1, <1>4 DEF CommitCancelled, CopyInv, TypesOK
  <2>3. artifact[j] = 0
    BY <1>1, <2>1 DEF CopyInv, Settled
  <2>4. /\ reservation' = [reservation EXCEPT ![j] = "released"]
        /\ retention' = [retention EXCEPT ![j] = "released"]
    BY <1>1, <2>1, <2>2, SettleRows
  <2>5. /\ reservation' \in [Jobs -> {"none", "held", "committed", "released"}]
        /\ retention' \in [Jobs -> {"none", "held", "released"}] /\ artifact' \in [Jobs -> Nat]
        /\ reservation'[j] = "released" /\ retention'[j] = "released"
        /\ \A i \in Jobs \ {j} : /\ reservation'[i] = reservation[i]
                                 /\ retention'[i] = retention[i] /\ artifact'[i] = artifact[i]
    BY <1>1, <2>2, <2>4 DEF CopyInv, TypesOK
  <2>6. QED
    BY <1>0, <1>1, <1>2, <1>3, <2>1, <2>2, <2>3, <2>5, EndInv DEF States
<1>5. CASE CommitReady(w)
  <2>1. job[j].state = "processing" /\ job[j].worker = w
    BY <1>0, <1>5 DEF CommitReady, CopyInv, Held, HoldsLease, Holding
  <2>2. /\ job' = [job EXCEPT ![j] = Unleased(job[j], "ready")]
        /\ attempt' = [attempt EXCEPT ![j][job[j].attempts] = "succeeded"]
        /\ Settle(j, "committed") /\ artifact' = [artifact EXCEPT ![j] = worker[w].fence]
    BY <1>0, <1>1, <1>5 DEF CommitReady, CopyInv, TypesOK
  <2>3. PICK mine \in WorkerRow : /\ mine.step \in {"idle", "failing"}
                                  /\ mine.step = "failing" => mine.job = j /\ mine.fence # 0
                                  /\ worker' = [worker EXCEPT ![w] = mine]
    <3>1. CASE worker' = [worker EXCEPT ![w] = Idle]
      BY <1>2, <3>1
    <3>2. CASE worker' = [worker EXCEPT ![w].step = "failing"]
      <4>1. /\ [worker[w] EXCEPT !.step = "failing"] \in WorkerRow
            /\ [worker[w] EXCEPT !.step = "failing"].step = "failing"
            /\ [worker[w] EXCEPT !.step = "failing"].job = j
            /\ [worker[w] EXCEPT !.step = "failing"].fence # 0
        BY <1>0, <1>1 DEF WorkerRow, Claiming
      <4>2. worker' = [worker EXCEPT ![w] = [worker[w] EXCEPT !.step = "failing"]]
        BY <3>2
      <4>3. QED
        BY <4>1, <4>2
    <3>3. QED
      BY <1>5, <3>1, <3>2 DEF CommitReady, Do
  <2>4. /\ reservation' = [reservation EXCEPT ![j] = "committed"]
        /\ retention' = [retention EXCEPT ![j] = "released"]
    BY <1>1, <2>1, <2>2, SettleRows
  <2>5. /\ reservation' \in [Jobs -> {"none", "held", "committed", "released"}]
        /\ retention' \in [Jobs -> {"none", "held", "released"}] /\ artifact' \in [Jobs -> Nat]
        /\ reservation'[j] = "committed" /\ retention'[j] = "released" /\ artifact'[j] # 0
        /\ \A i \in Jobs \ {j} : /\ reservation'[i] = reservation[i]
                                 /\ retention'[i] = retention[i] /\ artifact'[i] = artifact[i]
    BY <1>1, <2>2, <2>4 DEF CopyInv, TypesOK
  <2>6. QED
    BY <1>0, <1>1, <1>3, <2>1, <2>2, <2>3, <2>5, EndInv DEF States
<1>6. CASE RecordFailure(w)
  <2> DEFINE row == FailedRow(j, worker[w].code)
  <2>1. worker' = [worker EXCEPT ![w] = Idle] /\ artifact' = artifact
    BY <1>6 DEF RecordFailure
  <2>2. CASE FailsOwnClaim(w) /\ RowAllowed(row)
    <3>1. job[j].state = "processing" /\ job[j].worker = w
      BY <1>0, <1>1, <2>2, NoneAssumption DEF FailsOwnClaim, CopyInv, Settled
    <3>2. row \in JobRow /\ row.worker = NoWorker /\ row.state \in {"accepted", "failed"}
      BY <1>3 DEF FailedRow, States
    <3>3. /\ job' = [job EXCEPT ![j] = row]
          /\ attempt' = [attempt EXCEPT ![j][job[j].attempts] = "failed"]
          /\ IF row.state = "failed" THEN Settle(j, "released") ELSE UNCHANGED quota
      BY <1>0, <1>6, <2>2 DEF RecordFailure
    <3>4. artifact[j] = 0 /\ reservation[j] = "held" /\ retention[j] = "held"
      BY <1>1, <3>1 DEF CopyInv, Settled
    <3> HIDE DEF row
    <3>6. /\ row.state = "failed" => /\ reservation' = [reservation EXCEPT ![j] = "released"]
                                     /\ retention' = [retention EXCEPT ![j] = "released"]
          /\ row.state # "failed" => UNCHANGED <<reservation, retention>>
      BY <1>1, <3>1, <3>3, SettleRows DEF quota
    <3>7. /\ reservation' \in [Jobs -> {"none", "held", "committed", "released"}]
          /\ retention' \in [Jobs -> {"none", "held", "released"}] /\ artifact' \in [Jobs -> Nat]
          /\ row.state = "failed" => reservation'[j] = "released" /\ retention'[j] = "released"
          /\ \A i \in Jobs \ {j} : /\ reservation'[i] = reservation[i]
                                   /\ retention'[i] = retention[i] /\ artifact'[i] = artifact[i]
      BY <1>1, <2>1, <3>6 DEF CopyInv, TypesOK
    <3>8. CASE row.state = "failed"
      BY <1>1, <1>2, <2>1, <3>1, <3>2, <3>3, <3>4, <1>0, <3>7, <3>8, EndInv
    <3>9. CASE row.state = "accepted"
      BY <1>1, <1>2, <2>1, <3>1, <3>2, <3>3, <3>4, <1>0, <3>6, <3>7, <3>9, EndInv
    <3>10. QED
      BY <3>2, <3>8, <3>9
  <2>3. CASE ~(FailsOwnClaim(w) /\ RowAllowed(row))
    <3>1. UNCHANGED <<job, attempt, reservation, retention, artifact>>
      BY <1>0, <1>6, <2>1, <2>3 DEF RecordFailure, quota
    <3>2. QED
      BY <1>2, <2>1, <3>1, MoveInv DEF Claiming, Holding
  <2>4. QED
    BY <2>2, <2>3
<1>7. QED
  BY <1>4, <1>5, <1>6
-----------------------------------------------------------------------------
(* Quota. *)

AccountsOK == account \in [Copiers -> [usage : Nat, reserved : Int, uploads : Nat]]

\* The reservations a Copier holds, and the copies that became Artifacts.
HeldOf(c)  == {j \in Jobs : CopierOf[j] = c /\ reservation[j] = "held"}
SavedOf(c) == {j \in Jobs : CopierOf[j] = c /\ artifact[j] # 0}

Covered(c) ==
    /\ account[c].usage = account[c].uploads + Cardinality(SavedOf(c))
    /\ account[c].reserved >= Cardinality(HeldOf(c))
    /\ account[c].usage + account[c].reserved <= ArtifactLimit

QuotaInv == CopyInv /\ AccountsOK /\ \A c \in Copiers : Covered(c)

LEMMA Sizes ==
    ASSUME NEW S, S \subseteq Jobs
    PROVE  /\ IsFiniteSet(S) /\ Cardinality(S) \in Nat
           /\ \A j \in Jobs \ S : Cardinality(S \union {j}) = Cardinality(S) + 1
           /\ \A j \in S : Cardinality(S \ {j}) = Cardinality(S) - 1 /\ Cardinality(S) >= 1
<1>1. IsFiniteSet(S)
  BY JobsAssumption, FS_Subset
<1>2. Cardinality(S) \in Nat
  BY <1>1, FS_CardinalityType
<1>3. ASSUME NEW j \in Jobs \ S PROVE Cardinality(S \union {j}) = Cardinality(S) + 1
  BY <1>1, FS_AddElement
<1>4. ASSUME NEW j \in S PROVE Cardinality(S \ {j}) = Cardinality(S) - 1 /\ Cardinality(S) >= 1
  <2>1. Cardinality(S \ {j}) = Cardinality(S) - 1
    BY <1>1, FS_RemoveElement
  <2>2. S # {}
    OBVIOUS
  <2>3. QED
    BY <1>1, <1>2, <2>1, <2>2, FS_EmptySet
<1>5. QED
  BY <1>1, <1>2, <1>3, <1>4

LEMMA InitQuota == Init => AccountsOK /\ \A c \in Copiers : Covered(c)
<1> SUFFICES ASSUME Init, NEW c \in Copiers PROVE AccountsOK /\ Covered(c)
  BY DEF Init, AccountsOK, LimitAssumption
<1>1. HeldOf(c) = {} /\ SavedOf(c) = {}
  BY DEF Init, HeldOf, SavedOf
<1>2. Cardinality(HeldOf(c)) = 0 /\ Cardinality(SavedOf(c)) = 0
  BY <1>1, FS_EmptySet
<1>3. PICK n \in 0 .. ArtifactLimit : account[c] = [usage |-> n, reserved |-> 0, uploads |-> n]
  BY DEF Init
<1>4. account \in [Copiers -> [usage : Nat, reserved : Int, uploads : Nat]]
  BY LimitAssumption DEF Init
<1>5. QED
  BY <1>2, <1>3, <1>4, LimitAssumption DEF Covered, AccountsOK

\* Accounts of others, and those none of whose rows change, stay covered.
LEMMA OtherAccounts ==
    ASSUME QuotaInv, NEW c \in Copiers, account'[c] = account[c],
           \A j \in Jobs : CopierOf[j] = c =>
              reservation'[j] = reservation[j] /\ artifact'[j] = artifact[j]
    PROVE  Covered(c)'
<1>1. HeldOf(c)' = HeldOf(c) /\ SavedOf(c)' = SavedOf(c)
  BY DEF HeldOf, SavedOf
<1>2. QED
  BY <1>1 DEF QuotaInv, Covered

LEMMA AcceptQuota ==
    ASSUME QuotaInv, NEW j \in Jobs, AcceptCopy(j)
    PROVE  AccountsOK' /\ \A c \in Copiers : Covered(c)'
<1> DEFINE o == CopierOf[j]
<1>1. o \in Copiers /\ account[o] \in [usage : Nat, reserved : Int, uploads : Nat]
  BY CopierAssumption DEF QuotaInv, AccountsOK
<1>2. /\ account' = [account EXCEPT ![o].reserved = @ + 1]
      /\ account[o].usage + account[o].reserved + 1 <= ArtifactLimit
      /\ reservation' = [reservation EXCEPT ![j] = "held"] /\ artifact' = artifact
      /\ reservation[j] # "held"
  BY DEF AcceptCopy, CopyAllowed, QuotaInv, CopyInv, Settled
<1> HIDE DEF o
<1>3. AccountsOK'
  BY <1>1, <1>2 DEF QuotaInv, AccountsOK
<1>4. Covered(o)'
  <2>1. HeldOf(o)' = HeldOf(o) \union {j} /\ SavedOf(o)' = SavedOf(o) /\ j \in Jobs \ HeldOf(o)
    BY <1>2 DEF HeldOf, SavedOf, QuotaInv, CopyInv, TypesOK, o
  <2>2. /\ Cardinality(HeldOf(o) \union {j}) = Cardinality(HeldOf(o)) + 1
        /\ Cardinality(HeldOf(o)) \in Nat /\ Cardinality(SavedOf(o)) \in Nat
    BY <2>1, Sizes DEF HeldOf, SavedOf
  <2>3. /\ account'[o].usage = account[o].usage /\ account'[o].uploads = account[o].uploads
        /\ account'[o].reserved = account[o].reserved + 1
    BY <1>1, <1>2 DEF QuotaInv, AccountsOK
  <2>4. o' = o
    BY DEF o
  <2>5. QED
    BY <1>1, <1>2, <2>1, <2>2, <2>3, <2>4, LimitAssumption DEF QuotaInv, Covered
<1>5. ASSUME NEW c \in Copiers, c # o PROVE Covered(c)'
  BY <1>2, <1>5, OtherAccounts DEF QuotaInv, AccountsOK, CopyInv, TypesOK, o
<1>6. QED
  BY <1>3, <1>4, <1>5

\* A copy that ends moves its reservation, once.
LEMMA SettleQuota ==
    ASSUME QuotaInv, NEW j \in Jobs, job[j].state = "processing",
           NEW outcome \in {"committed", "released"}, Settle(j, outcome),
           NEW f \in Nat \ {0},
           artifact' = IF outcome = "committed" THEN [artifact EXCEPT ![j] = f] ELSE artifact
    PROVE  AccountsOK' /\ \A c \in Copiers : Covered(c)'
<1> DEFINE o == CopierOf[j]
           earned == IF outcome = "committed" THEN 1 ELSE 0
<1>1. o \in Copiers /\ account[o] \in [usage : Nat, reserved : Int, uploads : Nat]
  BY CopierAssumption DEF QuotaInv, AccountsOK
<1>2. reservation[j] = "held" /\ artifact[j] = 0
  BY DEF QuotaInv, CopyInv, Settled
<1>3. /\ account' = [account EXCEPT ![o].usage = @ + earned, ![o].reserved = @ - 1]
      /\ reservation' = [reservation EXCEPT ![j] = outcome]
  BY <1>2 DEF Settle
<1>4. earned \in {0, 1}
  OBVIOUS
<1>5. SavedOf(o)' = (IF earned = 1 THEN SavedOf(o) \union {j} ELSE SavedOf(o)) /\ j \notin SavedOf(o)
  BY <1>2 DEF SavedOf, QuotaInv, CopyInv, TypesOK
<1>6. HeldOf(o)' = HeldOf(o) \ {j} /\ j \in HeldOf(o)
  BY <1>2, <1>3 DEF HeldOf, QuotaInv, CopyInv, TypesOK
<1>7. /\ Cardinality(HeldOf(o)') = Cardinality(HeldOf(o)) - 1 /\ Cardinality(HeldOf(o)) \in Nat
      /\ Cardinality(SavedOf(o)') = Cardinality(SavedOf(o)) + earned /\ Cardinality(SavedOf(o)) \in Nat
  <2>1. HeldOf(o) \subseteq Jobs /\ SavedOf(o) \subseteq Jobs /\ j \in Jobs \ SavedOf(o)
    BY <1>5 DEF HeldOf, SavedOf
  <2>2. /\ Cardinality(HeldOf(o) \ {j}) = Cardinality(HeldOf(o)) - 1 /\ Cardinality(HeldOf(o)) \in Nat
        /\ Cardinality(SavedOf(o) \union {j}) = Cardinality(SavedOf(o)) + 1
        /\ Cardinality(SavedOf(o)) \in Nat
    BY <1>6, <2>1, Sizes
  <2> HIDE DEF o, earned
  <2>3. CASE earned = 1
    BY <1>5, <1>6, <2>2, <2>3
  <2>4. CASE earned = 0
    BY <1>5, <1>6, <2>2, <2>4
  <2>5. QED
    BY <1>4, <2>3, <2>4
<1>8. /\ account'[o].usage = account[o].usage + earned /\ account'[o].uploads = account[o].uploads
      /\ account'[o].reserved = account[o].reserved - 1
  BY <1>1, <1>3 DEF QuotaInv, AccountsOK
<1>9. AccountsOK'
  BY <1>1, <1>3, <1>4 DEF QuotaInv, AccountsOK
<1>10. ASSUME NEW c \in Copiers, c # o PROVE Covered(c)'
  BY <1>3, <1>10, OtherAccounts DEF QuotaInv, AccountsOK, CopyInv, TypesOK
<1>11. Covered(o)'
  BY <1>1, <1>4, <1>7, <1>8, LimitAssumption DEF QuotaInv, Covered
<1>12. QED
  BY <1>9, <1>10, <1>11

\* The rollback takes one off an account however many reservations it releases: it still
\* covers those that are left.
LEMMA RollbackQuota ==
    ASSUME QuotaInv, RollbackCopies
    PROVE  AccountsOK' /\ \A c \in Copiers : Covered(c)'
<1> DEFINE gone(c) == {j \in Cancellable \union {i \in Jobs : job[i].state = "cancelled"} :
                         CopierOf[j] = c /\ reservation[j] = "held"}
<1>1. account' = [c \in Copiers |-> [account[c] EXCEPT
                    !.reserved = IF gone(c) = {} THEN @ ELSE @ - 1]]
  BY DEF RollbackCopies
<1>2. AccountsOK'
  BY <1>1 DEF QuotaInv, AccountsOK
<1>3. ASSUME NEW c \in Copiers PROVE Covered(c)'
  <2>1. HeldOf(c)' = HeldOf(c) \ gone(c) /\ SavedOf(c)' = SavedOf(c)
    BY DEF HeldOf, SavedOf, RollbackCopies, Cancellable, QuotaInv, CopyInv, TypesOK
  <2>2. account[c] \in [usage : Nat, reserved : Int, uploads : Nat]
    BY DEF QuotaInv, AccountsOK
  <2>3. CASE gone(c) = {}
    <3>1. account'[c] = account[c] /\ HeldOf(c)' = HeldOf(c)
      BY <1>1, <2>1, <2>2, <2>3
    <3>2. QED
      BY <2>1, <3>1 DEF QuotaInv, Covered
  <2>4. ASSUME NEW j \in gone(c) PROVE Covered(c)'
    <3>1. /\ account'[c].usage = account[c].usage /\ account'[c].uploads = account[c].uploads
          /\ account'[c].reserved = account[c].reserved - 1
      BY <1>1, <2>2, <2>4
    <3>2. j \in HeldOf(c) /\ HeldOf(c) \ gone(c) \subseteq HeldOf(c) \ {j}
      BY <2>4 DEF HeldOf, Cancellable
    <3> HIDE DEF gone
    <3>3. Cardinality(HeldOf(c) \ {j}) = Cardinality(HeldOf(c)) - 1 /\ IsFiniteSet(HeldOf(c) \ {j})
      BY <3>2, Sizes DEF HeldOf
    <3>4. Cardinality(HeldOf(c) \ gone(c)) <= Cardinality(HeldOf(c) \ {j})
      BY <3>2, <3>3, FS_Subset
    <3>5. /\ Cardinality(HeldOf(c)) \in Nat /\ Cardinality(HeldOf(c) \ gone(c)) \in Nat
          /\ Cardinality(SavedOf(c)) \in Nat
      BY Sizes DEF HeldOf, SavedOf
    <3>6. QED
      BY <2>1, <2>2, <3>1, <3>3, <3>4, <3>5, LimitAssumption DEF QuotaInv, Covered
  <2>5. QED
    BY <2>3, <2>4
<1>4. QED
  BY <1>2, <1>3

LEMMA QuotaStep == QuotaInv /\ [Next]_vars => AccountsOK' /\ \A c \in Copiers : Covered(c)'
<1> SUFFICES ASSUME QuotaInv, [Next]_vars PROVE AccountsOK' /\ \A c \in Copiers : Covered(c)'
  OBVIOUS
<1>1. ASSUME UNCHANGED <<account, reservation, artifact>>
      PROVE  AccountsOK' /\ \A c \in Copiers : Covered(c)'
  BY <1>1, OtherAccounts DEF QuotaInv, AccountsOK
<1>2. ASSUME NEW w \in Workers, CommitCancelled(w) \/ CommitReady(w)
      PROVE  AccountsOK' /\ \A c \in Copiers : Covered(c)'
  <2>1. worker[w].step \in Holding /\ worker[w].job \in Jobs /\ worker[w].fence \in Nat \ {0}
    BY <1>2 DEF CommitCancelled, CommitReady, QuotaInv, CopyInv, TypesOK, WorkerRow, Held,
         Claiming, Holding
  <2>2. job[worker[w].job].state = "processing"
    BY <2>1 DEF QuotaInv, CopyInv, Held, HoldsLease
  <2>3. CASE CommitCancelled(w)
    BY <2>1, <2>2, <2>3, SettleQuota DEF CommitCancelled
  <2>4. CASE CommitReady(w)
    BY <2>1, <2>2, <2>4, SettleQuota DEF CommitReady
  <2>5. QED
    BY <1>2, <2>3, <2>4
<1>3. ASSUME NEW w \in Workers, RecordFailure(w)
      PROVE  AccountsOK' /\ \A c \in Copiers : Covered(c)'
  <2>1. worker[w].job \in Jobs /\ artifact' = artifact
    BY <1>3 DEF RecordFailure, QuotaInv, CopyInv, Held, Claiming
  <2>2. CASE FailsOwnClaim(w) /\ Settle(worker[w].job, "released")
    <3>1. job[worker[w].job].state = "processing"
      BY <2>1, <2>2, NoneAssumption DEF FailsOwnClaim, QuotaInv, CopyInv, Settled
    <3>2. QED
      BY <2>1, <2>2, <3>1, SettleQuota
  <2>3. CASE UNCHANGED quota
    BY <1>1, <2>1, <2>3 DEF quota
  <2>4. QED
    BY <1>3, <2>2, <2>3 DEF RecordFailure
<1>4. CASE ReconcileCopies
  <2>1. Unsettled = {}
    BY DEF Unsettled, Final, QuotaInv, CopyInv, Settled
  <2>2. QED
    BY <1>1, <1>4, <2>1 DEF ReconcileCopies, quota
<1>5. QED
  BY <1>1, <1>2, <1>3, <1>4, AcceptQuota, RollbackQuota
  DEF Next, WorkerStep, Dispatch, Governance, vars, quota, AdmitCopy, RefuseCopy, LeaseExpires,
      RecoverLeases, ClaimCopy, ClaimNothing, CopyFiles, CopyFails, BeginCommit, CommitRaises, Crash,
      ObserveReadiness, StatusAges, Redeploy, WithdrawSource, RemoveSource, BlockSource, ReverseBlock,
      CloseAccount
-----------------------------------------------------------------------------
(* The theorems. *)

\* The inductive invariant: a copy's rows follow from its state, and a Worker inside the
\* commit transaction holds the lease it locked.
THEOREM CopyInvariance == Spec => []CopyInv
<1>1. CopyInv /\ [Next]_vars => CopyInv'
  <2> SUFFICES ASSUME CopyInv, [Next]_vars PROVE CopyInv'
    OBVIOUS
  <2>1. CASE UNCHANGED vars
    BY <2>1, SameRows DEF vars, quota
  <2>2. ASSUME NEW w \in Workers, WorkerStep(w) PROVE CopyInv'
    BY <2>2, RecoverInv, ClaimInv, WorkInv, CopyFilesInv, FinishInv DEF WorkerStep
  <2>3. CASE StatusAges \/ Redeploy \/ Governance
    BY <2>3, SameRows DEF StatusAges, Redeploy, Governance, WithdrawSource, RemoveSource,
         BlockSource, ReverseBlock, CloseAccount, quota
  <2>4. QED
    BY <2>1, <2>2, <2>3, WorkInv, RequestInv, DispatchInv DEF Next
<1>2. QED
  BY <1>1, InitInv, PTL DEF Spec

\* Whoever ends a copy - its Worker, recovery, a block or the rollback - its outcome, its
\* reservation, its hold on the source, its Artifact and its attempts agree.
THEOREM OutcomesAreSettled == Spec => []OutcomeIsSettled
<1>1. CopyInv => OutcomeIsSettled
  BY DEF CopyInv, TypesOK, Settled, OutcomeIsSettled, JobRow, States, Final
<1>2. QED
  BY <1>1, CopyInvariance, PTL

\* However acceptances, commits, failures, recoveries and rollbacks interleave, a Copier's
\* usage is exactly the copies that became ready, every held reservation is covered by the
\* account, and the limit is kept.
THEOREM QuotasAreCovered == Spec => []QuotaIsCovered
<1>1. Init => QuotaInv
  BY InitInv, InitQuota DEF QuotaInv
<1>2. QuotaInv /\ CopyInv' /\ [Next]_vars => QuotaInv'
  BY QuotaStep DEF QuotaInv
<1>3. QuotaInv => QuotaIsCovered
  <2> SUFFICES ASSUME QuotaInv, NEW c \in Copiers
               PROVE  /\ account[c].usage = account[c].uploads + Cardinality(
                            {j \in Jobs : CopierOf[j] = c /\ j \in {i \in Jobs : artifact[i] # 0}})
                      /\ account[c].reserved >= Cardinality(
                            {j \in Jobs : CopierOf[j] = c /\ j \in {i \in Jobs : reservation[i] = "held"}})
                      /\ account[c].usage + account[c].reserved <= ArtifactLimit
    BY DEF QuotaIsCovered
  <2>1. /\ SavedOf(c) = {j \in Jobs : CopierOf[j] = c /\ j \in {i \in Jobs : artifact[i] # 0}}
        /\ HeldOf(c) = {j \in Jobs : CopierOf[j] = c /\ j \in {i \in Jobs : reservation[i] = "held"}}
    BY DEF SavedOf, HeldOf
  <2>2. QED
    BY <2>1 DEF QuotaInv, Covered
<1>4. QED
  BY <1>1, <1>2, <1>3, CopyInvariance, PTL DEF Spec

\* A copy that is ready, failed or cancelled stays so, whatever a Worker that lost its lease
\* or a repeated rollback still does.
THEOREM OutcomesAreFinal == Spec => OutcomeIsFinal
<1>1. CopyInv /\ [Next]_vars => [\A j \in Jobs : job[j].state \in Final => job'[j].state = job[j].state]_vars
  <2> SUFFICES ASSUME CopyInv, Next, NEW j \in Jobs, job[j].state \in Final
               PROVE  job'[j].state = job[j].state
    OBVIOUS
  <2> USE DEF CopyInv, TypesOK, Final
  <2>1. ASSUME NEW i \in Jobs, AdmitCopy(i) \/ AcceptCopy(i) \/ RefuseCopy(i) \/ LeaseExpires(i)
        PROVE  job'[j].state = job[j].state
    BY <2>1 DEF AdmitCopy, AcceptCopy, RefuseCopy, LeaseExpires, JobRow
  <2>2. ASSUME NEW w \in Workers, WorkerStep(w) PROVE job'[j].state = job[j].state
    <3>1. CASE RecoverLeases(w)
      BY <3>1 DEF RecoverLeases, Expired
    <3>2. ASSUME NEW i \in Jobs, ClaimCopy(w, i) PROVE job'[j].state = job[j].state
      BY <3>2 DEF ClaimCopy
    <3>3. CASE CopyFiles(w)
      BY <3>3 DEF CopyFiles, JobRow
    <3>4. CASE CommitCancelled(w) \/ CommitReady(w)
      BY <3>4 DEF CommitCancelled, CommitReady, Held, HoldsLease, Holding
    <3>5. CASE RecordFailure(w)
      <4>1. worker[w].job = j => ~FailsOwnClaim(w)
        BY NoneAssumption DEF FailsOwnClaim, Settled
      <4>2. QED
        BY <3>5, <4>1 DEF RecordFailure
    <3>6. QED
      BY <2>2, <3>1, <3>2, <3>3, <3>4, <3>5
      DEF WorkerStep, ClaimNothing, BeginCommit, CommitRaises, CopyFails
  <2>3. CASE Dispatch
    BY <2>3 DEF Dispatch, ObserveReadiness, ReconcileCopies, RollbackCopies, Cancellable, Waiting
  <2>4. QED
    BY <2>1, <2>2, <2>3 DEF Next, Crash, StatusAges, Redeploy, Governance, WithdrawSource,
         RemoveSource, BlockSource, ReverseBlock, CloseAccount
<1>2. QED
  BY <1>1, CopyInvariance, PTL DEF Spec, OutcomeIsFinal
=============================================================================
