--------------------------- MODULE JobStoreProofs ---------------------------
(***************************************************************************)
(* Proofs about JobStore for every set of jobs and workers, every term a   *)
(* caller may present, and every lease length, backoff base and client     *)
(* input.                                                                  *)
(***************************************************************************)
EXTENDS JobStore, TLAPS

(* A released row is a row again: a failed attempt, reported or noticed,   *)
(* never takes a column out of its type.                                   *)
LEMMA ReleasedIsRow ==
    ASSUME NEW r \in Row, NEW n \in Int
    PROVE  Released(r, n) \in Row
<1>1. RetryDecision(r) \in {"pending", "failed"}
  BY DEF RetryDecision
<1>2. r.retry_count + 1 \in Nat
  BY DEF Row
<1> QED BY <1>1, <1>2 DEF Released, Row

(* A backoff is a whole number of ticks.                                   *)
LEMMA BackoffIsInt ==
    ASSUME NEW r \in Row
    PROVE  Backoff(r) \in Int
<1>1. r.retry_count \in Nat /\ RetryDelay \in Nat
  BY StoreAssumption DEF Row
<1>2. RetryDelay * 2 ^ r.retry_count \in Int
  BY <1>1
<1> QED BY <1>2 DEF Backoff

(* An aged row is a row again.                                             *)
LEMMA AgedIsRow ==
    ASSUME NEW r \in Row
    PROVE  /\ Aged(r) \in Row
           /\ Aged(r).lease_expires_at = NULL <=> r.lease_expires_at = NULL
<1> DEFINE lease == IF r.lease_expires_at = NULL THEN NULL
                    ELSE Countdown(r.lease_expires_at, -1)
           next == Countdown(r.next_run_at, 0)
<1>1. next \in Int
  BY DEF Countdown, Greatest, Row
<1>2. /\ lease \in (-1..LeaseFor) \cup {NULL}
      /\ lease = NULL <=> r.lease_expires_at = NULL
  <2>1. CASE r.lease_expires_at = NULL
    BY <2>1
  <2>2. CASE r.lease_expires_at # NULL
    <3>1. r.lease_expires_at \in -1..LeaseFor
      BY <2>2 DEF Row
    <3>2. Countdown(r.lease_expires_at, -1) \in -1..LeaseFor
      BY <3>1, StoreAssumption DEF Countdown, Greatest
    <3> QED BY <2>2, <3>2, StoreAssumption
  <2> QED BY <2>1, <2>2
<1>3. Aged(r) = [r EXCEPT !.lease_expires_at = lease, !.next_run_at = next]
  BY DEF Aged
<1> HIDE DEF lease, next
<1> QED BY <1>1, <1>2, <1>3 DEF Row

(* Time does not pass for a row that was never filed.                      *)
LEMMA AgedNewRow == Aged(NewRow) = NewRow
<1>1. /\ NewRow.lease_expires_at = NULL
      /\ NewRow.next_run_at = 0
  BY DEF NewRow
<1>2. Countdown(0, 0) = 0
  BY DEF Countdown, Greatest
<1>3. Aged(NewRow) = [NewRow EXCEPT !.lease_expires_at = NULL, !.next_run_at = 0]
  BY <1>1, <1>2, Zenon DEF Aged
<1> QED BY <1>3 DEF NewRow

(* What DequeueJob writes is a row.                                        *)
LEMMA ClaimedIsRow ==
    ASSUME NEW r \in Row, NEW w \in Worker, NEW c \in Nat
    PROVE  [r EXCEPT !.state = "processing", !.worker_id = w,
                     !.claim_term = c, !.lease_expires_at = LeaseFor] \in Row
<1>1. LeaseFor \in -1..LeaseFor
  BY StoreAssumption
<1> QED BY <1>1 DEF Row

(***************************************************************************)
(* One step of the table, row by row: what any operation can do to row j.  *)
(* Every invariant below is proved from this one lemma, so the case split  *)
(* over the operations is made once.                                       *)
(***************************************************************************)
FiledStates == {IF s = "unset" THEN "pending" ELSE s : s \in StatusIn}
Created(r, r2) ==
    /\ r.state = "none"
    /\ r2.state \in FiledStates
    /\ r2.retry_count = 0
    /\ r2.max_retries \in Int
    /\ r2.worker_id = NoWorker
    /\ r2.lease_expires_at = NULL
    /\ r2.claim_term = 0
Claimed(r, r2) ==
    /\ r.state = "pending"
    /\ r2.state = "processing"
    /\ r2.worker_id \in Worker
    /\ r2.claim_term >= r.claim_term
    /\ r2.lease_expires_at = LeaseFor
    /\ r2.retry_count = r.retry_count
    /\ r2.max_retries = r.max_retries
Completed(r, r2) ==
    /\ r.state = "processing"
    /\ r.worker_id \in Worker
    /\ r2 = [r EXCEPT !.state = "done", !.worker_id = NoWorker,
                      !.lease_expires_at = NULL]
GivenUp(r, r2) ==
    /\ r.state = "processing"
    /\ \E n \in Int : r2 = Released(r, n)
Kept(r, r2) ==
    /\ r2.state = r.state
    /\ r2.worker_id = r.worker_id
    /\ r2.claim_term = r.claim_term
    /\ r2.retry_count = r.retry_count
    /\ r2.max_retries = r.max_retries
    /\ r2.lease_expires_at = NULL => r.lease_expires_at = NULL
    /\ r.state # "processing" /\ r.lease_expires_at = NULL
          => r2.lease_expires_at = NULL
    /\ r.state = "none" /\ r = NewRow => r2 = NewRow

RowStep(j) ==
    \/ Created(jobs[j], jobs'[j]) /\ handouts'[j] = handouts[j]
    \/ Claimed(jobs[j], jobs'[j]) /\ handouts'[j] = handouts[j] + 1
    \/ Completed(jobs[j], jobs'[j]) /\ handouts'[j] = handouts[j]
    \/ GivenUp(jobs[j], jobs'[j]) /\ handouts'[j] = handouts[j]
    \/ Kept(jobs[j], jobs'[j]) /\ handouts'[j] = handouts[j]

(* What CreateJob inserts is a row, filed in a state the client asked for. *)
LEMMA CreatedIsRow ==
    ASSUME NEW r, r.state = "none", NEW s \in FiledStates, NEW m \in Int
    PROVE  LET new == [NewRow EXCEPT !.state = s, !.max_retries = m]
           IN  new \in Row /\ Created(r, new)
<1>1. NewRow \in Row
  BY DEF NewRow, Row
<1>2. s \in {"pending", "processing", "done", "failed"}
  BY StoreAssumption DEF FiledStates
<1>3. [NewRow EXCEPT !.state = s, !.max_retries = m] \in Row
  BY <1>1, <1>2 DEF Row
<1>4. Created(r, [NewRow EXCEPT !.state = s, !.max_retries = m])
  BY DEF NewRow, Created
<1> QED BY <1>3, <1>4

(* A row no operation names is kept as it is.                              *)
LEMMA KeptReflexive ==
    ASSUME NEW r
    PROVE  Kept(r, r)
BY DEF Kept

LEMMA StepRowwise ==
    ASSUME StoreTypeOK, StoreNext
    PROVE  StoreTypeOK' /\ \A j \in Job : RowStep(j)
<1> USE StoreAssumption
<1>0. /\ jobs \in [Job -> Row]
      /\ handouts \in [Job -> Nat]
  BY DEF StoreTypeOK
<1>1. ASSUME NEW i \in Job, NEW status \in StatusIn, NEW max \in MaxRetriesIn,
             CreateJob(i, status, max)
      PROVE  StoreTypeOK' /\ \A j \in Job : RowStep(j)
  <2> DEFINE state == IF status = "unset" THEN "pending" ELSE status
             retries == IF max = 0 THEN 3 ELSE max
             new == [NewRow EXCEPT !.state = state, !.max_retries = retries]
  <2>1. /\ jobs' = [jobs EXCEPT ![i] = new]
        /\ handouts' = handouts
        /\ jobs[i].state = "none"
    BY <1>1 DEF CreateJob
  <2>2. new \in Row /\ Created(jobs[i], new)
    <3>1. state \in FiledStates /\ retries \in Int
      BY DEF FiledStates
    <3>2. jobs[i].state = "none"
      BY <2>1
    <3> HIDE DEF state, retries
    <3> QED BY <3>1, <3>2, CreatedIsRow, Zenon
  <2> HIDE DEF new
  <2>3. StoreTypeOK'
    BY <1>0, <2>1, <2>2 DEF StoreTypeOK
  <2>4. ASSUME NEW j \in Job PROVE RowStep(j)
    BY <1>0, <2>1, <2>2, KeptReflexive DEF RowStep
  <2> QED BY <2>3, <2>4
<1>2. ASSUME NEW t \in Term, NEW w \in Worker, NEW i \in Job, DequeueJob(t, w, i)
      PROVE  StoreTypeOK' /\ \A j \in Job : RowStep(j)
  <2> DEFINE r == jobs[i]
             new == [r EXCEPT !.state = "processing",
                              !.worker_id = w,
                              !.claim_term = Stamp(r.claim_term, t),
                              !.lease_expires_at = LeaseFor]
  <2>1. /\ jobs' = [jobs EXCEPT ![i] = new]
        /\ handouts' = [handouts EXCEPT ![i] = @ + 1]
        /\ r.state = "pending"
        /\ r \in Row
    <3>1. r \in Row
      BY <1>0
    <3>2. r.state = "pending"
      BY <1>2 DEF DequeueJob, Visible
    <3>3. handouts' = [handouts EXCEPT ![i] = @ + 1]
      BY <1>2 DEF DequeueJob
    <3>4. jobs' = [jobs EXCEPT ![i] = new]
      BY <1>2 DEF DequeueJob
    <3> QED BY <3>1, <3>2, <3>3, <3>4
  <2>2. /\ Stamp(r.claim_term, t) \in Nat
        /\ Stamp(r.claim_term, t) >= r.claim_term
    <3>1. r.claim_term \in Nat /\ t \in Nat
      BY <2>1 DEF Row
    <3> QED BY <3>1 DEF Stamp, Greatest
  <2>3. new \in Row /\ Claimed(r, new)
    <3>1. new \in Row
      BY <2>1, <2>2, ClaimedIsRow
    <3>2. Claimed(r, new)
      BY <2>1, <2>2 DEF Row, Claimed
    <3> QED BY <3>1, <3>2
  <2> HIDE DEF new
  <2>4. StoreTypeOK'
    BY <1>0, <2>1, <2>3 DEF StoreTypeOK
  <2>5. ASSUME NEW j \in Job PROVE RowStep(j)
    BY <1>0, <2>1, <2>3, KeptReflexive DEF RowStep
  <2> QED BY <2>4, <2>5
<1>3. ASSUME NEW w \in Worker, NEW i \in Job, Complete(w, i)
      PROVE  StoreTypeOK' /\ \A j \in Job : RowStep(j)
  <2> DEFINE r == jobs[i]
             new == [r EXCEPT !.state = "done", !.worker_id = NoWorker,
                              !.lease_expires_at = NULL]
  <2>1. /\ jobs' = [jobs EXCEPT ![i] = new]
        /\ handouts' = handouts
        /\ r.state = "processing" /\ r.worker_id = w
        /\ r \in Row
    BY <1>0, <1>3 DEF Complete, Owns
  <2>2. new \in Row /\ Completed(r, new)
    BY <2>1 DEF Row, Completed
  <2>3. StoreTypeOK'
    BY <1>0, <2>1, <2>2 DEF StoreTypeOK
  <2>4. ASSUME NEW j \in Job PROVE RowStep(j)
    BY <1>0, <2>1, <2>2, KeptReflexive DEF RowStep
  <2> QED BY <2>3, <2>4
<1>4. ASSUME NEW w \in Worker, NEW i \in Job, FailJob(w, i)
      PROVE  StoreTypeOK' /\ \A j \in Job : RowStep(j)
  <2> DEFINE r == jobs[i]
             n == IF HasRetries(r) THEN Backoff(r) ELSE r.next_run_at
             new == Released(r, n)
  <2>1. /\ jobs' = [jobs EXCEPT ![i] = new]
        /\ handouts' = handouts
        /\ r.state = "processing"
        /\ r \in Row
    BY <1>0, <1>4 DEF FailJob, Owns
  <2>2. n \in Int
    BY <2>1, BackoffIsInt DEF Row
  <2>3. new \in Row /\ GivenUp(r, new)
    BY <2>1, <2>2, ReleasedIsRow DEF GivenUp
  <2>4. StoreTypeOK'
    BY <1>0, <2>1, <2>3 DEF StoreTypeOK
  <2>5. ASSUME NEW j \in Job PROVE RowStep(j)
    BY <1>0, <2>1, <2>3, KeptReflexive DEF RowStep
  <2> QED BY <2>4, <2>5
<1>5. ASSUME NEW w \in Worker, NEW i \in Job, HeartbeatJob(w, i)
      PROVE  StoreTypeOK' /\ \A j \in Job : RowStep(j)
  <2> DEFINE r == jobs[i]
             new == [r EXCEPT !.lease_expires_at = LeaseFor]
  <2>1. /\ jobs' = [jobs EXCEPT ![i] = new]
        /\ handouts' = handouts
        /\ r.state = "processing"
        /\ r \in Row
    BY <1>0, <1>5 DEF HeartbeatJob, Owns
  <2>2. LeaseFor \in -1..LeaseFor /\ LeaseFor # NULL
    OBVIOUS
  <2>3. new \in Row /\ Kept(r, new)
    BY <2>1, <2>2 DEF Row, Kept, NewRow
  <2> HIDE DEF new
  <2>4. StoreTypeOK'
    BY <1>0, <2>1, <2>3 DEF StoreTypeOK
  <2>5. ASSUME NEW j \in Job PROVE RowStep(j)
    BY <1>0, <2>1, <2>3, KeptReflexive DEF RowStep
  <2> QED BY <2>4, <2>5
<1>6. ASSUME NEW t \in Term, ReapExpiredLeases(t)
      PROVE  StoreTypeOK' /\ \A j \in Job : RowStep(j)
  <2>1. /\ jobs' = [j \in Job |-> IF j \in Swept(t) THEN Released(jobs[j], 0)
                                                    ELSE jobs[j]]
        /\ handouts' = handouts
    BY <1>6 DEF ReapExpiredLeases
  <2>2. ASSUME NEW j \in Job PROVE jobs'[j] \in Row /\ RowStep(j)
    <3>1. CASE j \in Swept(t)
      <4>1. jobs'[j] = Released(jobs[j], 0) /\ jobs[j].state = "processing"
        BY <2>1, <3>1 DEF Swept, Expired
      <4>2. jobs'[j] \in Row /\ GivenUp(jobs[j], jobs'[j])
        <5>1. jobs[j] \in Row /\ 0 \in Int
          BY <1>0
        <5>2. Released(jobs[j], 0) \in Row
          BY <5>1, ReleasedIsRow
        <5> QED BY <4>1, <5>1, <5>2 DEF GivenUp
      <4> QED BY <2>1, <4>2 DEF RowStep
    <3>2. CASE j \notin Swept(t)
      BY <1>0, <2>1, <3>2, KeptReflexive DEF RowStep
    <3> QED BY <3>1, <3>2
  <2>3. StoreTypeOK'
    BY <1>0, <2>1, <2>2 DEF StoreTypeOK
  <2> QED BY <2>2, <2>3
<1>7. ASSUME NewPostgresStore
      PROVE  StoreTypeOK' /\ \A j \in Job : RowStep(j)
  <2>1. handouts' = handouts
    BY <1>7 DEF NewPostgresStore
  <2>2. jobs' = [j \in Job |->
                   IF jobs[j].state = "processing" /\ jobs[j].lease_expires_at = NULL
                   THEN [jobs[j] EXCEPT !.lease_expires_at = -1]
                   ELSE jobs[j]]
    BY <1>7 DEF NewPostgresStore
  <2>3. ASSUME NEW j \in Job PROVE jobs'[j] \in Row /\ Kept(jobs[j], jobs'[j])
    <3>1. CASE jobs[j].state = "processing" /\ jobs[j].lease_expires_at = NULL
      <4>1. jobs[j] \in Row /\ -1 \in -1..LeaseFor
        BY <1>0
      <4>2. jobs'[j] = [jobs[j] EXCEPT !.lease_expires_at = -1]
        BY <2>2, <3>1
      <4>3. jobs'[j] \in Row
        BY <4>1, <4>2 DEF Row
      <4> QED BY <3>1, <4>1, <4>2 DEF Row, Kept
    <3>2. CASE ~(jobs[j].state = "processing" /\ jobs[j].lease_expires_at = NULL)
      BY <1>0, <2>2, <3>2, KeptReflexive
    <3> QED BY <3>1, <3>2
  <2>4. StoreTypeOK'
    BY <1>0, <2>1, <2>2, <2>3 DEF StoreTypeOK
  <2> QED BY <2>1, <2>3, <2>4 DEF RowStep
<1>8. ASSUME TickJobs
      PROVE  StoreTypeOK' /\ \A j \in Job : RowStep(j)
  <2>1. /\ jobs' = [j \in Job |-> Aged(jobs[j])]
        /\ handouts' = handouts
    BY <1>8 DEF TickJobs
  <2>2. ASSUME NEW j \in Job PROVE jobs'[j] \in Row /\ Kept(jobs[j], jobs'[j])
    <3> DEFINE r == jobs[j]
    <3>1. r \in Row /\ jobs'[j] = Aged(r)
      BY <1>0, <2>1
    <3>2. Aged(r) \in Row /\ (Aged(r).lease_expires_at = NULL <=> r.lease_expires_at = NULL)
      BY <3>1, AgedIsRow
    <3>3. /\ Aged(r).state = r.state
          /\ Aged(r).worker_id = r.worker_id
          /\ Aged(r).claim_term = r.claim_term
          /\ Aged(r).retry_count = r.retry_count
          /\ Aged(r).max_retries = r.max_retries
      BY <3>1 DEF Aged, Row
    <3>4. r = NewRow => Aged(r) = NewRow
      BY AgedNewRow
    <3> QED BY <3>1, <3>2, <3>3, <3>4 DEF Kept
  <2>3. StoreTypeOK'
    BY <1>0, <2>1, <2>2 DEF StoreTypeOK
  <2> QED BY <2>1, <2>2, <2>3 DEF RowStep
<1> QED
  BY <1>1, <1>2, <1>3, <1>4, <1>5, <1>6, <1>7, <1>8 DEF StoreNext
-----------------------------------------------------------------------------
(* The type invariant of the table: whatever callers present and in        *)
(* whatever order, every row keeps its column types.                       *)
THEOREM StoreTypeCorrect == StoreSpec => []StoreTypeOK
<1>1. StoreInit => StoreTypeOK
  BY DEF StoreInit, StoreTypeOK, NewRow, Row
<1>2. StoreTypeOK /\ [StoreNext]_storeVars => StoreTypeOK'
  <2>1. StoreTypeOK /\ StoreNext => StoreTypeOK'
    BY StepRowwise
  <2>2. StoreTypeOK /\ UNCHANGED storeVars => StoreTypeOK'
    BY DEF StoreTypeOK, storeVars
  <2> QED BY <2>1, <2>2
<1> QED BY <1>1, <1>2, PTL DEF StoreSpec

(***************************************************************************)
(* The inductive invariant.  AttemptBound alone is not inductive: that a   *)
(* job is not handed out too often follows from every earlier handout      *)
(* having been counted (AttemptLedger), and that a sweep or a report finds *)
(* the row it may release follows from the lease pair (LeaseDiscipline).   *)
(***************************************************************************)
StoreInv == AttemptLedger /\ LeaseDiscipline

(* The columns of a typed row, for the leaves below.                       *)
LEMMA RowTypes ==
    ASSUME StoreTypeOK, NEW j \in Job
    PROVE  /\ jobs[j] \in Row
           /\ jobs[j].state \in {"none", "pending", "processing", "done", "failed"}
           /\ jobs[j].retry_count \in Nat
           /\ jobs[j].max_retries \in Int
           /\ jobs[j].claim_term \in Nat
           /\ handouts[j] \in Nat
<1>1. jobs[j] \in Row /\ handouts[j] \in Nat
  BY DEF StoreTypeOK
<1> QED BY <1>1 DEF Row

(* What a release writes into the columns the ledger speaks of.            *)
LEMMA ReleasedColumns ==
    ASSUME NEW r \in Row, NEW n \in Int
    PROVE  /\ Released(r, n).state = RetryDecision(r)
           /\ Released(r, n).retry_count = r.retry_count + 1
           /\ Released(r, n).max_retries = r.max_retries
           /\ Released(r, n).worker_id = NoWorker
           /\ Released(r, n).lease_expires_at = NULL
           /\ Released(r, n).claim_term = r.claim_term
BY DEF Released, Row

(* Every row starts as a new one.                                          *)
LEMMA InitRows ==
    ASSUME StoreInit, NEW j \in Job
    PROVE  /\ jobs[j] = NewRow /\ handouts[j] = 0
           /\ jobs[j].state = "none" /\ jobs[j].retry_count = 0
           /\ jobs[j].max_retries = 0 /\ jobs[j].worker_id = NoWorker
           /\ jobs[j].lease_expires_at = NULL
<1>1. jobs[j] = NewRow /\ handouts[j] = 0
  BY DEF StoreInit
<1> QED BY <1>1 DEF NewRow

LEMMA LedgerInductive ==
    ASSUME StoreTypeOK, AttemptLedger, StoreTypeOK', \A j \in Job : RowStep(j)
    PROVE  AttemptLedger'
<1> SUFFICES ASSUME NEW j \in Job
             PROVE  /\ handouts'[j] <= jobs'[j].retry_count + InProgressOrDone(jobs'[j])
                    /\ jobs'[j].retry_count <= Budget(jobs'[j]) + Buried(jobs'[j])
                    /\ jobs'[j].state = "none" => jobs'[j] = NewRow /\ handouts'[j] = 0
  BY DEF AttemptLedger
<1> DEFINE r == jobs[j]
           r2 == jobs'[j]
<1>1. /\ r \in Row
      /\ r.state \in {"none", "pending", "processing", "done", "failed"}
      /\ r.retry_count \in Nat /\ r.max_retries \in Int /\ handouts[j] \in Nat
  BY RowTypes
<1>2. /\ handouts[j] <= r.retry_count + InProgressOrDone(r)
      /\ r.retry_count <= Budget(r) + Buried(r)
      /\ r.state = "none" => r = NewRow /\ handouts[j] = 0
  BY DEF AttemptLedger
<1>3. RowStep(j)
  OBVIOUS
<1>4. CASE Created(r, r2) /\ handouts'[j] = handouts[j]
  <2>1. r2.state \in {"pending", "processing", "done", "failed"}
    BY <1>4, StoreAssumption DEF Created, FiledStates
  <2>2. handouts'[j] = 0 /\ r2.retry_count = 0 /\ r2.max_retries \in Int
    BY <1>2, <1>4 DEF Created
  <2> QED BY <2>1, <2>2 DEF InProgressOrDone, Buried, Budget, Greatest
<1>5. CASE Claimed(r, r2) /\ handouts'[j] = handouts[j] + 1
  <2>1. /\ r.state = "pending" /\ r2.state = "processing"
        /\ r2.retry_count = r.retry_count /\ r2.max_retries = r.max_retries
        /\ handouts'[j] = handouts[j] + 1
    BY <1>5 DEF Claimed
  <2> QED BY <1>1, <1>2, <2>1 DEF InProgressOrDone, Buried, Budget, Greatest
<1>6. CASE Completed(r, r2) /\ handouts'[j] = handouts[j]
  <2>1. /\ r.state = "processing" /\ r2.state = "done"
        /\ r2.retry_count = r.retry_count /\ r2.max_retries = r.max_retries
        /\ handouts'[j] = handouts[j]
    BY <1>1, <1>6 DEF Completed, Row
  <2> QED BY <1>1, <1>2, <2>1 DEF InProgressOrDone, Buried, Budget, Greatest
<1>7. CASE GivenUp(r, r2) /\ handouts'[j] = handouts[j]
  <2>1. /\ r.state = "processing" /\ r2.state = RetryDecision(r)
        /\ r2.retry_count = r.retry_count + 1 /\ r2.max_retries = r.max_retries
        /\ handouts'[j] = handouts[j]
    BY <1>1, <1>7, ReleasedColumns DEF GivenUp
  <2> QED BY <1>1, <1>2, <2>1
          DEF InProgressOrDone, Buried, Budget, Greatest, RetryDecision, HasRetries
<1>8. CASE Kept(r, r2) /\ handouts'[j] = handouts[j]
  <2>1. /\ r2.state = r.state
        /\ r2.retry_count = r.retry_count /\ r2.max_retries = r.max_retries
        /\ handouts'[j] = handouts[j]
        /\ r.state = "none" /\ r = NewRow => r2 = NewRow
    BY <1>8 DEF Kept
  <2> QED BY <1>1, <1>2, <2>1 DEF InProgressOrDone, Buried, Budget, Greatest
<1> QED BY <1>3, <1>4, <1>5, <1>6, <1>7, <1>8 DEF RowStep

LEMMA LeaseInductive ==
    ASSUME StoreTypeOK, LeaseDiscipline, \A j \in Job : RowStep(j)
    PROVE  LeaseDiscipline'
<1> SUFFICES ASSUME NEW j \in Job
             PROVE  /\ jobs'[j].worker_id # NoWorker
                          => /\ jobs'[j].state = "processing"
                             /\ jobs'[j].lease_expires_at # NULL
                    /\ jobs'[j].state # "processing"
                          => jobs'[j].lease_expires_at = NULL
  BY DEF LeaseDiscipline
<1> DEFINE r == jobs[j]
           r2 == jobs'[j]
<1>1. r \in Row
  BY RowTypes
<1>2. /\ r.worker_id # NoWorker => r.state = "processing" /\ r.lease_expires_at # NULL
      /\ r.state # "processing" => r.lease_expires_at = NULL
  BY DEF LeaseDiscipline
<1>3. CASE Created(r, r2)
  BY <1>3 DEF Created
<1>4. CASE Claimed(r, r2)
  BY <1>4, StoreAssumption DEF Claimed
<1>5. CASE Completed(r, r2)
  <2>1. r2.worker_id = NoWorker /\ r2.lease_expires_at = NULL
    BY <1>1, <1>5 DEF Completed, Row
  <2> QED BY <2>1
<1>6. CASE GivenUp(r, r2)
  <2>1. r2.worker_id = NoWorker /\ r2.lease_expires_at = NULL
    BY <1>1, <1>6, ReleasedColumns DEF GivenUp
  <2> QED BY <2>1
<1>7. CASE Kept(r, r2)
  BY <1>2, <1>7 DEF Kept
<1>8. RowStep(j)
  OBVIOUS
<1> QED BY <1>3, <1>4, <1>5, <1>6, <1>7, <1>8 DEF RowStep

THEOREM StoreInvariant == StoreSpec => [](StoreTypeOK /\ StoreInv)
<1>1. StoreInit => StoreTypeOK /\ StoreInv
  <2>1. StoreInit => AttemptLedger
    <3> SUFFICES ASSUME StoreInit, NEW j \in Job
                 PROVE  /\ handouts[j] <= jobs[j].retry_count + InProgressOrDone(jobs[j])
                        /\ jobs[j].retry_count <= Budget(jobs[j]) + Buried(jobs[j])
                        /\ jobs[j].state = "none" => jobs[j] = NewRow /\ handouts[j] = 0
      BY DEF AttemptLedger
    <3>1. InProgressOrDone(jobs[j]) = 0 /\ Buried(jobs[j]) = 0 /\ Budget(jobs[j]) = 0
      BY InitRows DEF InProgressOrDone, Buried, Budget, Greatest
    <3> QED BY <3>1, InitRows
  <2>2. StoreInit => LeaseDiscipline
    BY InitRows DEF LeaseDiscipline
  <2>3. StoreInit => StoreTypeOK
    BY DEF StoreInit, StoreTypeOK, NewRow, Row
  <2> QED BY <2>1, <2>2, <2>3 DEF StoreInv
<1>2. StoreTypeOK /\ StoreInv /\ [StoreNext]_storeVars => (StoreTypeOK /\ StoreInv)'
  <2>1. ASSUME StoreTypeOK, StoreInv, StoreNext
        PROVE  (StoreTypeOK /\ StoreInv)'
    BY <2>1, StepRowwise, LedgerInductive, LeaseInductive DEF StoreInv
  <2>2. ASSUME StoreTypeOK, StoreInv, UNCHANGED storeVars
        PROVE  (StoreTypeOK /\ StoreInv)'
    BY <2>2 DEF StoreTypeOK, StoreInv, AttemptLedger, LeaseDiscipline, storeVars,
                InProgressOrDone, Buried, Budget
  <2> QED BY <2>1, <2>2
<1> QED BY <1>1, <1>2, PTL DEF StoreSpec

(* No job is handed out more often than its first attempt and its retries, *)
(* however claims, reports, lapses, sweeps and restarts interleave.        *)
THEOREM AttemptBoundHolds == StoreSpec => []AttemptBound
<1>1. StoreTypeOK /\ StoreInv => AttemptBound
  <2> SUFFICES ASSUME StoreTypeOK, AttemptLedger, NEW j \in Job
               PROVE  handouts[j] <= Budget(jobs[j]) + 1
    BY DEF AttemptBound, StoreInv
  <2>1. /\ jobs[j].retry_count \in Nat /\ jobs[j].max_retries \in Int
        /\ handouts[j] \in Nat
    BY RowTypes
  <2>2. /\ handouts[j] <= jobs[j].retry_count + InProgressOrDone(jobs[j])
        /\ jobs[j].retry_count <= Budget(jobs[j]) + Buried(jobs[j])
    BY DEF AttemptLedger
  <2> QED BY <2>1, <2>2 DEF InProgressOrDone, Buried, Budget, Greatest
<1> QED BY <1>1, StoreInvariant, PTL

(* The lease pair stays paired: an owned row is processing and carries a   *)
(* lease the reaper can find, any other row carries none.                  *)
THEOREM LeaseDisciplineHolds == StoreSpec => []LeaseDiscipline
<1>1. StoreTypeOK /\ StoreInv => LeaseDiscipline
  BY DEF StoreInv
<1> QED BY <1>1, StoreInvariant, PTL

(* claim_term never moves down, whoever writes the row.  That a new row    *)
(* starts at 0 is harmless only because an unfiled id has no stamp yet,    *)
(* which is the last conjunct of AttemptLedger.                            *)
THEOREM ClaimTermMonotone == StoreSpec => ClaimTermOnlyMovesUp
<1>1. ASSUME StoreTypeOK, StoreInv, [StoreNext]_storeVars
      PROVE  [\A j \in Job : jobs'[j].claim_term >= jobs[j].claim_term]_storeVars
  <2>1. ASSUME StoreNext, NEW j \in Job
        PROVE  jobs'[j].claim_term >= jobs[j].claim_term
    <3> DEFINE r == jobs[j]
               r2 == jobs'[j]
    <3>1. r \in Row /\ r.claim_term \in Nat
      BY <1>1, RowTypes
    <3>2. RowStep(j)
      BY <1>1, <2>1, StepRowwise
    <3>3. CASE Created(r, r2)
      <4>1. r = NewRow /\ r2.claim_term = 0
        BY <1>1, <3>3 DEF StoreInv, AttemptLedger, Created
      <4> QED BY <4>1 DEF NewRow
    <3>4. CASE Claimed(r, r2)
      BY <3>4 DEF Claimed
    <3>5. CASE Completed(r, r2)
      <4>1. r2.claim_term = r.claim_term
        BY <3>1, <3>5 DEF Completed, Row
      <4> QED BY <3>1, <4>1
    <3>6. CASE GivenUp(r, r2)
      <4>1. r2.claim_term = r.claim_term
        BY <3>1, <3>6, ReleasedColumns DEF GivenUp
      <4> QED BY <3>1, <4>1
    <3>7. CASE Kept(r, r2)
      BY <3>1, <3>7 DEF Kept
    <3> QED BY <3>2, <3>3, <3>4, <3>5, <3>6, <3>7 DEF RowStep
  <2> QED BY <1>1, <2>1
<1> QED BY <1>1, StoreInvariant, PTL DEF StoreSpec, ClaimTermOnlyMovesUp
-----------------------------------------------------------------------------
(***************************************************************************)
(* With jobs filed as pending the ledger is exact.                         *)
(***************************************************************************)
FiledPending == StatusIn \subseteq {"unset", "pending"}

LEMMA ExactLedgerInductive ==
    ASSUME FiledPending, StoreTypeOK, AttemptLedger, ExactLedger,
           \A j \in Job : RowStep(j)
    PROVE  ExactLedger'
<1> SUFFICES ASSUME NEW j \in Job
             PROVE  /\ handouts'[j] = jobs'[j].retry_count + InProgressOrDone(jobs'[j])
                    /\ jobs'[j].state = "failed"
                          => jobs'[j].retry_count = Budget(jobs'[j]) + 1
  BY DEF ExactLedger
<1> DEFINE r == jobs[j]
           r2 == jobs'[j]
<1>1. /\ r \in Row
      /\ r.state \in {"none", "pending", "processing", "done", "failed"}
      /\ r.retry_count \in Nat /\ r.max_retries \in Int /\ handouts[j] \in Nat
  BY RowTypes
<1>2. /\ handouts[j] = r.retry_count + InProgressOrDone(r)
      /\ r.state = "failed" => r.retry_count = Budget(r) + 1
      /\ r.retry_count <= Budget(r) + Buried(r)
      /\ r.state = "none" => r = NewRow /\ handouts[j] = 0
  BY DEF AttemptLedger, ExactLedger
<1>3. RowStep(j)
  OBVIOUS
<1>4. CASE Created(r, r2) /\ handouts'[j] = handouts[j]
  <2>1. r2.state = "pending"
    BY <1>4 DEF FiledPending, Created, FiledStates
  <2>2. handouts'[j] = 0 /\ r2.retry_count = 0
    BY <1>2, <1>4 DEF Created
  <2> QED BY <2>1, <2>2 DEF InProgressOrDone
<1>5. CASE Claimed(r, r2) /\ handouts'[j] = handouts[j] + 1
  <2>1. /\ r.state = "pending" /\ r2.state = "processing"
        /\ r2.retry_count = r.retry_count
    BY <1>5 DEF Claimed
  <2> QED BY <1>1, <1>2, <1>5, <2>1 DEF InProgressOrDone
<1>6. CASE Completed(r, r2) /\ handouts'[j] = handouts[j]
  <2>1. /\ r.state = "processing" /\ r2.state = "done"
        /\ r2.retry_count = r.retry_count
    BY <1>1, <1>6 DEF Completed, Row
  <2> QED BY <1>1, <1>2, <1>6, <2>1 DEF InProgressOrDone
<1>7. CASE GivenUp(r, r2) /\ handouts'[j] = handouts[j]
  <2>1. /\ r.state = "processing" /\ r2.state = RetryDecision(r)
        /\ r2.retry_count = r.retry_count + 1 /\ r2.max_retries = r.max_retries
    BY <1>1, <1>7, ReleasedColumns DEF GivenUp
  <2> QED BY <1>1, <1>2, <1>7, <2>1
          DEF InProgressOrDone, Buried, Budget, Greatest, RetryDecision, HasRetries
<1>8. CASE Kept(r, r2) /\ handouts'[j] = handouts[j]
  <2>1. /\ r2.state = r.state
        /\ r2.retry_count = r.retry_count /\ r2.max_retries = r.max_retries
    BY <1>8 DEF Kept
  <2> QED BY <1>1, <1>2, <1>8, <2>1 DEF InProgressOrDone, Budget
<1> QED BY <1>3, <1>4, <1>5, <1>6, <1>7, <1>8 DEF RowStep

(* When clients file jobs as pending, a job is only dead-lettered after    *)
(* its first attempt and every retry were handed out, and only done after  *)
(* a handout: no stall, sweep or report is ever counted twice.             *)
THEOREM NoAttemptSkippedHolds ==
    ASSUME FiledPending
    PROVE  StoreSpec => []NoAttemptSkipped
<1>1. StoreInit => ExactLedger
  <2> SUFFICES ASSUME StoreInit, NEW j \in Job
               PROVE  /\ handouts[j] = jobs[j].retry_count + InProgressOrDone(jobs[j])
                      /\ jobs[j].state = "failed"
                            => jobs[j].retry_count = Budget(jobs[j]) + 1
    BY DEF ExactLedger
  <2>1. InProgressOrDone(jobs[j]) = 0
    BY InitRows DEF InProgressOrDone
  <2> QED BY <2>1, InitRows
<1>2. StoreTypeOK /\ StoreInv /\ ExactLedger /\ [StoreNext]_storeVars => ExactLedger'
  <2>1. ASSUME StoreTypeOK, StoreInv, ExactLedger, StoreNext
        PROVE  ExactLedger'
    BY <2>1, StepRowwise, ExactLedgerInductive DEF StoreInv
  <2>2. ASSUME ExactLedger, UNCHANGED storeVars
        PROVE  ExactLedger'
    BY <2>2 DEF ExactLedger, storeVars, InProgressOrDone, Budget
  <2> QED BY <2>1, <2>2
<1>3. StoreTypeOK /\ ExactLedger => NoAttemptSkipped
  <2> SUFFICES ASSUME StoreTypeOK, ExactLedger, NEW j \in Job
               PROVE  /\ jobs[j].state = "failed" => handouts[j] = Budget(jobs[j]) + 1
                      /\ jobs[j].state = "done" => handouts[j] > 0
    BY DEF NoAttemptSkipped
  <2>1. jobs[j].retry_count \in Nat /\ jobs[j].max_retries \in Int
    BY RowTypes
  <2>2. /\ handouts[j] = jobs[j].retry_count + InProgressOrDone(jobs[j])
        /\ jobs[j].state = "failed" => jobs[j].retry_count = Budget(jobs[j]) + 1
    BY DEF ExactLedger
  <2> QED BY <2>1, <2>2 DEF InProgressOrDone
<1> QED BY <1>1, <1>2, <1>3, StoreInvariant, PTL DEF StoreSpec
-----------------------------------------------------------------------------
(***************************************************************************)
(* The refinement: one lemma per kind of row step.                         *)
(***************************************************************************)
LEMMA LifeIsLife ==
    ASSUME NEW r \in Row
    PROVE  /\ LifeOf(r) \in Abstract!Life
           /\ LifeOf(r).phase = PhaseOf(r)
           /\ LifeOf(r).left = Greatest(r.max_retries - r.retry_count, 0)
           /\ LifeOf(r).holder = r.worker_id
<1>1. PhaseOf(r) \in Abstract!Phase
  BY DEF PhaseOf, Abstract!Phase, Row
<1>2. Greatest(r.max_retries - r.retry_count, 0) \in Nat
  <2>1. r.max_retries \in Int /\ r.retry_count \in Nat
    BY DEF Row
  <2> QED BY <2>1 DEF Greatest
<1>3. r.worker_id \in Worker \cup {NoWorker}
  BY DEF Row
<1> QED BY <1>1, <1>2, <1>3 DEF LifeOf, Abstract!Life

LifeStep(l, l2) ==
    \/ /\ l.phase = "unfiled" /\ l2.phase # "unfiled" /\ l2.holder = NoWorker
    \/ /\ l.phase = "queued" /\ l2.phase = "held" /\ l2.holder # NoWorker
       /\ l2.left = l.left
    \/ /\ l.phase = "held" /\ l.holder # NoWorker /\ l2.phase = "done"
       /\ l2.holder = NoWorker /\ l2.left = l.left
    \/ /\ l.phase = "held" /\ l.left > 0 /\ l2.phase = "queued"
       /\ l2.holder = NoWorker /\ l2.left = l.left - 1
    \/ /\ l.phase = "held" /\ l.left = 0 /\ l2.phase = "dead"
       /\ l2.holder = NoWorker /\ l2.left = 0

LEMMA RowStepIsLifeStep ==
    ASSUME StoreTypeOK, StoreTypeOK', NEW j \in Job, RowStep(j)
    PROVE  \/ LifeStep(LifeOf(jobs[j]), LifeOf(jobs'[j]))
           \/ LifeOf(jobs'[j]) = LifeOf(jobs[j])
<1> DEFINE r == jobs[j]
           r2 == jobs'[j]
<1>1. /\ r \in Row /\ r2 \in Row
      /\ r.retry_count \in Nat /\ r.max_retries \in Int
      /\ r.state \in {"none", "pending", "processing", "done", "failed"}
  BY RowTypes DEF StoreTypeOK
<1>2. /\ LifeOf(r).phase = PhaseOf(r) /\ LifeOf(r2).phase = PhaseOf(r2)
      /\ LifeOf(r).left = Greatest(r.max_retries - r.retry_count, 0)
      /\ LifeOf(r2).left = Greatest(r2.max_retries - r2.retry_count, 0)
      /\ LifeOf(r).holder = r.worker_id /\ LifeOf(r2).holder = r2.worker_id
  BY <1>1, LifeIsLife
<1>3. CASE Created(r, r2)
  <2>1. r2.state \in {"pending", "processing", "done", "failed"}
    BY <1>3, StoreAssumption DEF Created, FiledStates
  <2>2. r.state = "none" /\ r2.worker_id = NoWorker
    BY <1>3 DEF Created
  <2>3. PhaseOf(r) = "unfiled" /\ PhaseOf(r2) # "unfiled"
    BY <2>1, <2>2 DEF PhaseOf
  <2> QED BY <1>2, <2>2, <2>3 DEF LifeStep
<1>4. CASE Claimed(r, r2)
  <2>1. /\ r.state = "pending" /\ r2.state = "processing" /\ r2.worker_id \in Worker
        /\ r2.retry_count = r.retry_count /\ r2.max_retries = r.max_retries
    BY <1>4 DEF Claimed
  <2>2. PhaseOf(r) = "queued" /\ PhaseOf(r2) = "held" /\ r2.worker_id # NoWorker
    BY <2>1, StoreAssumption DEF PhaseOf
  <2> QED BY <1>2, <2>1, <2>2 DEF LifeStep
<1>5. CASE Completed(r, r2)
  <2>1. /\ r.state = "processing" /\ r.worker_id \in Worker
        /\ r2.state = "done" /\ r2.worker_id = NoWorker
        /\ r2.retry_count = r.retry_count /\ r2.max_retries = r.max_retries
    BY <1>1, <1>5 DEF Completed, Row
  <2>2. PhaseOf(r) = "held" /\ PhaseOf(r2) = "done" /\ r.worker_id # NoWorker
    BY <2>1, StoreAssumption DEF PhaseOf
  <2> QED BY <1>2, <2>1, <2>2 DEF LifeStep
<1>6. CASE GivenUp(r, r2)
  <2>1. /\ r.state = "processing" /\ r2.state = RetryDecision(r)
        /\ r2.worker_id = NoWorker
        /\ r2.retry_count = r.retry_count + 1 /\ r2.max_retries = r.max_retries
    BY <1>1, <1>6, ReleasedColumns DEF GivenUp
  <2>2. PhaseOf(r) = "held"
    BY <2>1 DEF PhaseOf
  <2>3. CASE HasRetries(r)
    <3>1. PhaseOf(r2) = "queued"
      BY <2>1, <2>3 DEF RetryDecision, PhaseOf
    <3>2. LifeOf(r).left > 0 /\ LifeOf(r2).left = LifeOf(r).left - 1
      BY <1>1, <1>2, <2>1, <2>3 DEF HasRetries, Greatest
    <3> QED BY <1>2, <2>1, <2>2, <3>1, <3>2 DEF LifeStep
  <2>4. CASE ~HasRetries(r)
    <3>1. PhaseOf(r2) = "dead"
      BY <2>1, <2>4 DEF RetryDecision, PhaseOf
    <3>2. LifeOf(r).left = 0 /\ LifeOf(r2).left = 0
      BY <1>1, <1>2, <2>1, <2>4 DEF HasRetries, Greatest
    <3> QED BY <1>2, <2>1, <2>2, <3>1, <3>2 DEF LifeStep
  <2> QED BY <2>3, <2>4
<1>7. CASE Kept(r, r2)
  <2>1. /\ r2.state = r.state /\ r2.worker_id = r.worker_id
        /\ r2.retry_count = r.retry_count /\ r2.max_retries = r.max_retries
    BY <1>7 DEF Kept
  <2> QED BY <2>1 DEF LifeOf, PhaseOf
<1> QED BY <1>3, <1>4, <1>5, <1>6, <1>7 DEF RowStep

(* The table implements the abstract life of a job: every statement of     *)
(* postgres.go moves each row by one legal step or not at all, so done and *)
(* dead are final and every give-back costs exactly one retry.             *)
THEOREM StoreRefinesLifecycle == StoreSpec => ImplementsLifecycle
<1> DEFINE life == [j \in Job |-> LifeOf(jobs[j])]
<1>1. StoreInit => Abstract!Init
  <2> SUFFICES ASSUME StoreInit
               PROVE  \A j \in Job : /\ LifeOf(jobs[j]) \in Abstract!Life
                                     /\ LifeOf(jobs[j]).phase = "unfiled"
                                     /\ LifeOf(jobs[j]).holder = NoWorker
    BY DEF Abstract!Init
  <2> TAKE j \in Job
  <2>1. jobs[j] = NewRow /\ jobs[j].state = "none" /\ jobs[j].worker_id = NoWorker
    BY InitRows
  <2>2. NewRow \in Row
    BY DEF NewRow, Row
  <2>3. PhaseOf(jobs[j]) = "unfiled"
    BY <2>1 DEF PhaseOf
  <2> QED BY <2>1, <2>2, <2>3, LifeIsLife
<1>2. ASSUME StoreTypeOK, StoreTypeOK', [StoreNext]_storeVars
      PROVE  [Abstract!Next]_life
  <2>1. CASE UNCHANGED storeVars
    BY <2>1 DEF storeVars
  <2>2. CASE StoreNext
    <3>1. life' \in [Job -> Abstract!Life]
      <4>1. \A j \in Job : jobs'[j] \in Row
        BY <1>2 DEF StoreTypeOK
      <4> QED BY <4>1, LifeIsLife
    <3>2. ASSUME NEW j \in Job
          PROVE  Abstract!Step(j) \/ life'[j] = life[j]
      <4>1. \/ LifeStep(LifeOf(jobs[j]), LifeOf(jobs'[j]))
            \/ LifeOf(jobs'[j]) = LifeOf(jobs[j])
        BY <1>2, <2>2, StepRowwise, RowStepIsLifeStep
      <4>2. life[j] = LifeOf(jobs[j]) /\ life'[j] = LifeOf(jobs'[j])
        OBVIOUS
      <4> QED BY <4>1, <4>2 DEF LifeStep, Abstract!Step, Abstract!File,
                 Abstract!Assign, Abstract!Finish, Abstract!GiveBack, Abstract!Bury
    <3> QED BY <3>1, <3>2 DEF Abstract!Next
  <2> QED BY <1>2, <2>1, <2>2
<1> QED
  BY <1>1, <1>2, StoreTypeCorrect, PTL
  DEF StoreSpec, ImplementsLifecycle, Abstract!Spec
=============================================================================
