------------------------------ MODULE JobStore ------------------------------
(***************************************************************************)
(* The jobs table of internal/storage/postgres.go, with the policy values  *)
(* internal/queue/queue.go passes through (lease length, backoff base).    *)
(* Every store method is one SQL statement, so every method is one atomic  *)
(* action.  Callers are unconstrained here: any worker id and any          *)
(* leadership term may be presented at any time, in any order, which is    *)
(* what the fences in the WHERE clauses have to survive.                   *)
(*                                                                         *)
(* The columns lease_expires_at and next_run_at are relative to            *)
(* CURRENT_TIMESTAMP (module Postgres): a lease is expired when it is      *)
(* below 0, a job is visible when next_run_at is at most 0.                *)
(* Columns nothing in the code reads back (type, payload, last_error,      *)
(* created_at, started_at, done_at) are left out.                          *)
(***************************************************************************)
EXTENDS Postgres

CONSTANTS
    Job,            \* job ids
    Worker,         \* worker ids that may appear in a claim
    NoWorker,       \* the empty worker_id
    NULL,           \* the SQL NULL
    Term,           \* leadership terms callers present
    LeaseFor,       \* queue.leaseFor, in ticks of the database clock
    RetryDelay,     \* queue.retryDelay, in ticks
    MaxInterval,    \* the longest backoff make_interval accepts, in ticks
    StatusIn,       \* values of Job.status that clients send in Enqueue
    MaxRetriesIn    \* values of Job.max_retries that clients send

ASSUME StoreAssumption ==
    /\ NoWorker \notin Worker
    /\ NULL \notin Int
    /\ Term \subseteq Nat
    /\ LeaseFor \in Nat
    /\ RetryDelay \in Nat
    /\ MaxInterval \in Int
    /\ StatusIn \subseteq {"unset", "pending", "processing", "done", "failed"}
    /\ MaxRetriesIn \subseteq Int

VARIABLES
    jobs,       \* the table: jobs[j] is the row with id j
    handouts    \* history: how often a claim of job j has landed

storeVars == <<jobs, handouts>>

Row == [state            : {"none", "pending", "processing", "done", "failed"},
        retry_count      : Nat,
        max_retries      : Int,
        worker_id        : Worker \cup {NoWorker},
        lease_expires_at : (-1..LeaseFor) \cup {NULL},
        claim_term       : Nat,
        next_run_at      : Int]

(* The row CreateJob inserts, but for state and max_retries: the defaults  *)
(* of the schema and a next_run_at of CURRENT_TIMESTAMP.  "none" stands    *)
(* for an id that has no row.                                              *)
NewRow == [state |-> "none", retry_count |-> 0, max_retries |-> 0,
           worker_id |-> NoWorker, lease_expires_at |-> NULL,
           claim_term |-> 0, next_run_at |-> 0]

StoreInit ==
    /\ jobs = [j \in Job |-> NewRow]
    /\ handouts = [j \in Job |-> 0]
-----------------------------------------------------------------------------
(* Helpers: one per idea of the SQL.                                       *)

HasRetriesOffByOne(r) == r.retry_count <= r.max_retries  \* mutant
HasRetriesEarly(r) == r.retry_count + 1 < r.max_retries  \* mutant
HasRetries(r) == r.retry_count < r.max_retries

(* retryDecision: attempts left go back to pending, otherwise the DLQ.     *)
RetryDecisionNeverBuries(r) == "pending"  \* mutant
RetryDecision(r) == IF HasRetries(r) THEN "pending" ELSE "failed"

(* The backoff before the next attempt: base * 2^retry_count.              *)
Backoff(r) == RetryDelay * 2 ^ r.retry_count

(* SELECT ... WHERE state = 'pending' AND next_run_at <= CURRENT_TIMESTAMP *)
Visible(j) == jobs[j].state = "pending" /\ jobs[j].next_run_at <= 0

(* WHERE id = $1 AND worker_id = $2 AND state = 'processing': the fence    *)
(* every report and every heartbeat passes.                                *)
Owns(w, j) == jobs[j].worker_id = w /\ jobs[j].state = "processing"

(* lease_expires_at < CURRENT_TIMESTAMP, which NULL never satisfies.       *)
Expired(j) == /\ jobs[j].state = "processing"
              /\ jobs[j].lease_expires_at # NULL
              /\ jobs[j].lease_expires_at < 0

(* The rows a sweep on behalf of leadership term t releases.               *)
SweptUnfenced(t) == {j \in Job : Expired(j)}  \* mutant
SweptStrictly(t) == {j \in Job : Expired(j) /\ jobs[j].claim_term < t}  \* mutant
Swept(t) == {j \in Job : Expired(j) /\ jobs[j].claim_term <= t}

(* A failed attempt, reported or noticed: the job goes back or is buried,  *)
(* the attempt is counted, and nobody owns the row any more.               *)
ReleasedUncounted(r, next_run) ==  \* mutant
    [r EXCEPT !.state = RetryDecision(r),
              !.worker_id = NoWorker,
              !.lease_expires_at = NULL,
              !.next_run_at = next_run]
ReleasedStillOwned(r, next_run) ==  \* mutant
    [r EXCEPT !.state = RetryDecision(r),
              !.retry_count = r.retry_count + 1,
              !.next_run_at = next_run]
Released(r, next_run) ==
    [r EXCEPT !.state = RetryDecision(r),
              !.retry_count = r.retry_count + 1,
              !.worker_id = NoWorker,
              !.lease_expires_at = NULL,
              !.next_run_at = next_run]
-----------------------------------------------------------------------------
(* The store's operations.                                                 *)

(* CreateJob: an unset (empty) status means pending, a max_retries of 0    *)
(* means 3; anything else the client sent is stored as it is.  An id that  *)
(* exists already violates the primary key and changes nothing.            *)
CreateJob(j, status, max) ==
    /\ jobs[j].state = "none"
    /\ jobs' = [jobs EXCEPT ![j] =
                  [NewRow EXCEPT
                     !.state = IF status = "unset" THEN "pending" ELSE status,
                     !.max_retries = IF max = 0 THEN 3 ELSE max]]
    /\ UNCHANGED handouts

(* DequeueJob claims one visible row; which one is up to the database,     *)
(* because the SELECT has no ORDER BY and skips locked rows.  The caller's *)
(* term can only raise claim_term; it is not compared with it.             *)
StampLowering(old, t) == t  \* mutant
Stamp(old, t) == Greatest(old, t)

DequeueJob(t, w, j) ==
    /\ Visible(j)
    /\ LET r == jobs[j]
       IN  jobs' = [jobs EXCEPT ![j] =
                      [r EXCEPT !.state = "processing",
                                !.worker_id = w,
                                !.claim_term = Stamp(r.claim_term, t),
                                !.lease_expires_at = LeaseFor]]
    /\ handouts' = [handouts EXCEPT ![j] = @ + 1]

Complete(w, j) ==
    /\ Owns(w, j)
    /\ jobs' = [jobs EXCEPT ![j] = [@ EXCEPT !.state = "done",
                                             !.worker_id = NoWorker,
                                             !.lease_expires_at = NULL]]
    /\ UNCHANGED handouts

(* FailJob: next_run_at only moves when another attempt is to come.  The   *)
(* backoff doubles per attempt with no ceiling, and one that make_interval *)
(* cannot hold is an error that changes nothing.                           *)
FailJob(w, j) ==
    /\ Owns(w, j)
    /\ HasRetries(jobs[j]) => Backoff(jobs[j]) <= MaxInterval
    /\ LET r == jobs[j]
       IN  jobs' = [jobs EXCEPT ![j] =
                      Released(r, IF HasRetries(r) THEN Backoff(r)
                                                   ELSE r.next_run_at)]
    /\ UNCHANGED handouts

HeartbeatStacking(w, j) ==  \* mutant
    /\ Owns(w, j)
    /\ jobs' = [jobs EXCEPT ![j].lease_expires_at = @ + LeaseFor]
    /\ UNCHANGED handouts
HeartbeatJob(w, j) ==
    /\ Owns(w, j)
    /\ jobs' = [jobs EXCEPT ![j].lease_expires_at = LeaseFor]
    /\ UNCHANGED handouts

(* ReapExpiredLeases: one UPDATE releases every expired row that no newer  *)
(* leadership has claimed, with no backoff.                                *)
ReapExpiredLeases(t) ==
    /\ jobs' = [j \in Job |-> IF j \in Swept(t) THEN Released(jobs[j], 0)
                                                ELSE jobs[j]]
    /\ UNCHANGED handouts

(* NewPostgresStore, run by every server at startup: CREATE and ALTER do   *)
(* nothing to a table of this version, and a processing row without a      *)
(* lease is given one that has already expired.                            *)
NewPostgresStore ==
    /\ jobs' = [j \in Job |->
                  IF jobs[j].state = "processing" /\ jobs[j].lease_expires_at = NULL
                  THEN [jobs[j] EXCEPT !.lease_expires_at = -1]
                  ELSE jobs[j]]
    /\ UNCHANGED handouts

(* The database clock moves by one tick.                                   *)
Aged(r) ==
    [r EXCEPT !.lease_expires_at = IF @ = NULL THEN NULL ELSE Countdown(@, -1),
              !.next_run_at = Countdown(@, 0)]
TickJobs ==
    /\ jobs' = [j \in Job |-> Aged(jobs[j])]
    /\ UNCHANGED handouts

StoreNext ==
    \/ \E j \in Job, status \in StatusIn, max \in MaxRetriesIn :
          CreateJob(j, status, max)
    \/ \E t \in Term, w \in Worker, j \in Job : DequeueJob(t, w, j)
    \/ \E w \in Worker, j \in Job : Complete(w, j)
    \/ \E w \in Worker, j \in Job : FailJob(w, j)
    \/ \E w \in Worker, j \in Job : HeartbeatJob(w, j)
    \/ \E t \in Term : ReapExpiredLeases(t)
    \/ NewPostgresStore
    \/ TickJobs

StoreSpec == StoreInit /\ [][StoreNext]_storeVars
-----------------------------------------------------------------------------
(* Properties.                                                             *)

(* Every row keeps the column types of the schema, and no claim or         *)
(* heartbeat leases a job for longer than one lease from now.              *)
StoreTypeOK ==
    /\ jobs \in [Job -> Row]
    /\ handouts \in [Job -> Nat]

(* Retries a row was filed with; a negative max_retries buys none.         *)
Budget(r) == Greatest(r.max_retries, 0)

(* "A job runs at most max_retries+1 times": however reports, heartbeats,  *)
(* lapses, sweeps and restarts interleave, no job is handed to a worker    *)
(* more often than its first attempt and its retries.                      *)
AttemptBound == \A j \in Job : handouts[j] <= Budget(jobs[j]) + 1

(* The accounting behind AttemptBound: every claim but the one in progress *)
(* has been counted in retry_count, which stays within the budget until    *)
(* the attempt that buries the job.                                        *)
InProgressOrDone(r) == IF r.state \in {"processing", "done"} THEN 1 ELSE 0
Buried(r) == IF r.state = "failed" THEN 1 ELSE 0
AttemptLedger ==
    \A j \in Job :
       LET r == jobs[j]
       IN  /\ handouts[j] <= r.retry_count + InProgressOrDone(r)
           /\ r.retry_count <= Budget(r) + Buried(r)
           /\ r.state = "none" => r = NewRow /\ handouts[j] = 0

(* No attempt is lost: a job only lands in the DLQ after it was handed out *)
(* once and for each of its retries, and a done job was handed out.  It    *)
(* needs clients to file jobs as pending, as cmd/producer does.            *)
ExactLedger ==
    \A j \in Job :
       LET r == jobs[j]
       IN  /\ handouts[j] = r.retry_count + InProgressOrDone(r)
           /\ r.state = "failed" => r.retry_count = Budget(r) + 1
NoAttemptSkipped ==
    \A j \in Job :
       /\ jobs[j].state = "failed" => handouts[j] = Budget(jobs[j]) + 1
       /\ jobs[j].state = "done" => handouts[j] > 0

(* The lease pair: a row with an owner is processing and carries a lease   *)
(* the reaper can find expired, and a row that is not processing has       *)
(* neither, so no late report can match it.                                *)
LeaseDiscipline ==
    \A j \in Job :
       LET r == jobs[j]
       IN  /\ r.worker_id # NoWorker => /\ r.state = "processing"
                                        /\ r.lease_expires_at # NULL
           /\ r.state # "processing" => r.lease_expires_at = NULL

(* claim_term is a fencing token: no operation of any caller, whatever     *)
(* term it presents, moves it down.                                        *)
ClaimTermOnlyMovesUp ==
    [][\A j \in Job : jobs'[j].claim_term >= jobs[j].claim_term]_storeVars

(* The table implements the abstract life of a job.                        *)
PhaseOf(r) == CASE r.state = "none"       -> "unfiled"
                [] r.state = "pending"    -> "queued"
                [] r.state = "processing" -> "held"
                [] r.state = "done"       -> "done"
                [] r.state = "failed"     -> "dead"
LifeOf(r) == [phase  |-> PhaseOf(r),
              left   |-> Greatest(r.max_retries - r.retry_count, 0),
              holder |-> r.worker_id]
Abstract == INSTANCE JobLifecycle WITH life <- [j \in Job |-> LifeOf(jobs[j])]

(* Every step of the table is a step a job's life allows: only a queued    *)
(* job is assigned, only a held one is finished, given back or buried, a   *)
(* retry is used each time, and done and dead are final.                   *)
ImplementsLifecycle == Abstract!Spec
=============================================================================
