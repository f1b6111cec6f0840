---------------------------- MODULE ClusterProofs ---------------------------
(***************************************************************************)
(* Proofs about Cluster: for any number of servers, jobs and workers, with *)
(* passes and sweeps of deposed leaders under way.                         *)
(*                                                                         *)
(* The composition is proved first: the cluster runs the election of       *)
(* Leadership and nothing but operations of JobStore under terms that were *)
(* won.  Every theorem about either then holds in the cluster, and what is *)
(* left is what relates the two.                                           *)
(***************************************************************************)
EXTENDS Cluster, JobStoreProofs, LeadershipProofs

LEMMA ClusterLeadStep ==
    ASSUME [ClusterNext]_clusterVars
    PROVE  [LeadNext]_leadVars
<1>1. ASSUME NEW n \in Node, LoopStep(n) \/ ClusterCrash(n)
      PROVE  LeadNext
  BY <1>1 DEF LoopStep, ClusterCrash, LeadNext, NodeStep
<1>2. ASSUME NEW n \in Node, BeginPush(n) \/ EndPush(n) \/ BeginSweep(n)
      PROVE  UNCHANGED leadVars
  BY <1>2 DEF BeginPush, EndPush, BeginSweep
<1>3. ASSUME NEW n \in Node, NEW t \in push[n], NEW w \in Worker, NEW j \in Job,
             Claim(n, t, w, j)
      PROVE  UNCHANGED leadVars
  BY <1>3 DEF Claim
<1>4. ASSUME NEW n \in Node, NEW t \in sweep[n], Sweep(n, t) \/ SweepFailed(n, t)
      PROVE  UNCHANGED leadVars
  BY <1>4 DEF Sweep, SweepFailed
<1>5. CASE ClientStep \/ ServerStarts
  BY <1>5 DEF ClientStep, ServerStarts
<1>6. CASE Tick
  BY <1>6 DEF Tick, LeadNext
<1>7. CASE UNCHANGED clusterVars
  BY <1>7 DEF clusterVars, leadVars
<1> QED BY <1>1, <1>2, <1>3, <1>4, <1>5, <1>6, <1>7 DEF ClusterNext

(* Pushes, sweeps and reports do not disturb the election: what is proved  *)
(* of the leased row holds with the whole server around it.                *)
THEOREM ClusterRunsElection == ClusterSpec => LeadSpec
<1>1. ClusterInit => LeadInit
  BY DEF ClusterInit
<1>2. [ClusterNext]_clusterVars => [LeadNext]_leadVars
  BY ClusterLeadStep
<1> QED BY <1>1, <1>2, PTL DEF ClusterSpec, LeadSpec
-----------------------------------------------------------------------------
(* The term of the row moves up by one at a time, up to the bound.         *)
LEMMA RowTermStep ==
    ASSUME LeadTypeOK, [LeadNext]_leadVars
    PROVE  \/ leadership'.term = leadership.term
           \/ leadership.term < MaxTerm /\ leadership'.term = leadership.term + 1
<1>0. leadership \in LeadRow
  BY DEF LeadTypeOK, LeadRow
<1>1. ASSUME NEW n \in Node, CampaignWon(n) \/ CampaignReplyLost(n)
      PROVE  leadership.term < MaxTerm /\ leadership'.term = leadership.term + 1
  BY <1>1 DEF CampaignWon, CampaignReplyLost, WinRow
<1>2. ASSUME NEW n \in Node, Renew(n) \/ Resign(n)
      PROVE  leadership'.term = leadership.term
  BY <1>0, <1>2 DEF Renew, Resign, ClearedRow, LeadRow
<1>3. ASSUME NEW n \in Node,
             \/ RowUntouched(n) \/ RenewRefused(n) \/ ResignFailed(n)
             \/ Shutdown(n) /\ UNCHANGED leadership
             \/ Crash(n) /\ UNCHANGED leadership
      PROVE  leadership'.term = leadership.term
  BY <1>3 DEF RowUntouched, RenewRefused, ResignFailed
<1>4. CASE TickLeadership
  BY <1>0, <1>4 DEF TickLeadership, LeadRow
<1>5. CASE UNCHANGED leadVars
  BY <1>5 DEF leadVars
<1> QED BY <1>1, <1>2, <1>3, <1>4, <1>5 DEF LeadNext, NodeStep

(***************************************************************************)
(* Work under way is on behalf of a reign that was won, however long ago.  *)
(***************************************************************************)
WorkBounded ==
    /\ push \in [Node -> SUBSET Nat]
    /\ sweep \in [Node -> SUBSET Nat]
    /\ leadership.term <= MaxTerm
    /\ \A n \in Node : push[n] \cup sweep[n] \subseteq 1..leadership.term

LEMMA WorkInductive ==
    ASSUME LeadTypeOK, LeadInv, LeadTypeOK', WorkBounded, [ClusterNext]_clusterVars
    PROVE  WorkBounded'
<1>0. /\ leadership.term \in Nat /\ leadership'.term \in Nat /\ MaxTerm \in Nat
      /\ push \in [Node -> SUBSET Nat] /\ sweep \in [Node -> SUBSET Nat]
      /\ \A n \in Node : /\ push[n] \subseteq 1..leadership.term
                         /\ sweep[n] \subseteq 1..leadership.term
  BY LeadAssumption DEF LeadTypeOK, WorkBounded
<1>1. leadership.term <= leadership'.term /\ leadership'.term <= MaxTerm
  BY <1>0, ClusterLeadStep, RowTermStep DEF WorkBounded
<1>2. \A n \in Node : isLead[n] => term[n] \in 1..leadership.term /\ term[n] \in Nat
  BY <1>0 DEF LeadInv, ReignsOrdered, LeadsWhileHolding, Reigns, Reign
<1> SUFFICES /\ push' \in [Node -> SUBSET Nat] /\ sweep' \in [Node -> SUBSET Nat]
             /\ \A m \in Node : /\ push'[m] \subseteq 1..leadership.term
                                /\ sweep'[m] \subseteq 1..leadership.term
  BY <1>0, <1>1 DEF WorkBounded
<1>3. ASSUME NEW n \in Node, BeginPush(n) \/ BeginSweep(n)
      PROVE  /\ push' \in [Node -> SUBSET Nat] /\ sweep' \in [Node -> SUBSET Nat]
             /\ \A m \in Node : /\ push'[m] \subseteq 1..leadership.term
                                /\ sweep'[m] \subseteq 1..leadership.term
  BY <1>0, <1>2, <1>3 DEF BeginPush, BeginSweep
<1>4. ASSUME NEW n \in Node, EndPush(n) \/ ClusterCrash(n) \/ LoopStep(n)
      PROVE  /\ push' \in [Node -> SUBSET Nat] /\ sweep' \in [Node -> SUBSET Nat]
             /\ \A m \in Node : /\ push'[m] \subseteq 1..leadership.term
                                /\ sweep'[m] \subseteq 1..leadership.term
  BY <1>0, <1>4 DEF EndPush, ClusterCrash, LoopStep, work
<1>5. ASSUME NEW n \in Node, NEW t \in sweep[n], Sweep(n, t) \/ SweepFailed(n, t)
      PROVE  /\ push' \in [Node -> SUBSET Nat] /\ sweep' \in [Node -> SUBSET Nat]
             /\ \A m \in Node : /\ push'[m] \subseteq 1..leadership.term
                                /\ sweep'[m] \subseteq 1..leadership.term
  BY <1>0, <1>5 DEF Sweep, SweepFailed
<1>6. ASSUME UNCHANGED <<push, sweep>>
      PROVE  /\ push' \in [Node -> SUBSET Nat] /\ sweep' \in [Node -> SUBSET Nat]
             /\ \A m \in Node : /\ push'[m] \subseteq 1..leadership.term
                                /\ sweep'[m] \subseteq 1..leadership.term
  BY <1>0, <1>6
<1>7. ASSUME \/ \E n \in Node : \E t \in push[n], w \in Worker, j \in Job :
                   Claim(n, t, w, j)
             \/ ClientStep \/ ServerStarts \/ Tick \/ UNCHANGED clusterVars
      PROVE  UNCHANGED <<push, sweep>>
  BY <1>7 DEF Claim, ClientStep, ServerStarts, Tick, work, clusterVars
<1> QED BY <1>3, <1>4, <1>5, <1>6, <1>7 DEF ClusterNext

LEMMA WorkIsBounded == ClusterSpec => [](LeadTypeOK /\ LeadInv /\ WorkBounded)
<1>1. ClusterInit => WorkBounded
  BY LeadAssumption DEF ClusterInit, LeadInit, WorkBounded
<1>2. LeadTypeOK /\ LeadInv /\ LeadTypeOK' /\ WorkBounded /\ [ClusterNext]_clusterVars
        => WorkBounded'
  BY WorkInductive
<1> QED BY <1>1, <1>2, ClusterRunsElection, LeadInvariant, PTL DEF ClusterSpec

LEMMA ClusterStoreStep ==
    ASSUME WorkBounded, LeadTypeOK, [ClusterNext]_clusterVars
    PROVE  [StoreNext]_storeVars
<1>0. \A n \in Node : push[n] \subseteq Term /\ sweep[n] \subseteq Term
  <2>1. leadership.term \in Nat /\ MaxTerm \in Nat /\ leadership.term <= MaxTerm
    BY LeadAssumption DEF LeadTypeOK, WorkBounded
  <2>2. 1..leadership.term \subseteq 1..MaxTerm
    BY <2>1
  <2> QED BY <2>2, ClusterAssumption DEF WorkBounded
<1>1. ASSUME NEW n \in Node,
             \/ BeginPush(n) \/ EndPush(n) \/ BeginSweep(n)
             \/ ClusterCrash(n) \/ LoopStep(n)
      PROVE  UNCHANGED storeVars
  BY <1>1 DEF BeginPush, EndPush, BeginSweep, ClusterCrash, LoopStep, storeVars
<1>2. ASSUME NEW n \in Node, NEW t \in push[n], NEW w \in Worker, NEW j \in Job,
             Claim(n, t, w, j)
      PROVE  StoreNext
  BY <1>0, <1>2 DEF Claim, StoreNext
<1>3. ASSUME NEW n \in Node, NEW t \in sweep[n], Sweep(n, t)
      PROVE  StoreNext
  BY <1>0, <1>3 DEF Sweep, StoreNext
<1>4. ASSUME NEW n \in Node, NEW t \in sweep[n], SweepFailed(n, t)
      PROVE  UNCHANGED storeVars
  BY <1>4 DEF SweepFailed, storeVars
<1>5. CASE ClientStep \/ ServerStarts
  BY <1>5 DEF ClientStep, ServerStarts, StoreNext
<1>6. CASE Tick
  BY <1>6 DEF Tick, StoreNext
<1>7. CASE UNCHANGED clusterVars
  BY <1>7 DEF clusterVars, storeVars
<1> QED BY <1>1, <1>2, <1>3, <1>4, <1>5, <1>6, <1>7 DEF ClusterNext

(* Whatever term a stalled pass or sweep still presents, it is one the     *)
(* store was proved to cope with: with several servers, leaders deposed in *)
(* mid-pass and servers dying, no job runs more often than its retries     *)
(* allow, the lease pair holds, and every job lives the life it may.       *)
THEOREM ClusterUsesStore ==
    ClusterSpec => /\ StoreSpec
                   /\ [](AttemptBound /\ LeaseDiscipline)
                   /\ ImplementsLifecycle
<1>1. ClusterInit => StoreInit
  BY DEF ClusterInit
<1>2. WorkBounded /\ LeadTypeOK /\ [ClusterNext]_clusterVars => [StoreNext]_storeVars
  BY ClusterStoreStep
<1>3. ClusterSpec => StoreSpec
  BY <1>1, <1>2, WorkIsBounded, PTL DEF ClusterSpec, StoreSpec
<1> QED
  BY <1>3, AttemptBoundHolds, LeaseDisciplineHolds, StoreRefinesLifecycle, PTL
-----------------------------------------------------------------------------
(***************************************************************************)
(* The stamps.  A claim is the only statement that writes claim_term or    *)
(* counts as a claim; the others leave it, or file a row that was never    *)
(* claimed.                                                                *)
(***************************************************************************)
StampKept(j) ==
    \/ jobs'[j].claim_term = jobs[j].claim_term
    \/ jobs[j].state = "none" /\ jobs'[j].claim_term = 0

LEMMA OnlyClaimsStamp ==
    ASSUME StoreTypeOK,
           \/ \E i \in Job, status \in StatusIn, max \in MaxRetriesIn :
                 CreateJob(i, status, max)
           \/ \E w \in Worker, i \in Job : Complete(w, i)
           \/ \E w \in Worker, i \in Job : FailJob(w, i)
           \/ \E w \in Worker, i \in Job : HeartbeatJob(w, i)
           \/ \E t \in Nat : ReapExpiredLeases(t)
           \/ NewPostgresStore
           \/ TickJobs
           \/ UNCHANGED storeVars
    PROVE  \A j \in Job : StampKept(j)
<1>0. jobs \in [Job -> Row] /\ \A j \in Job : jobs[j] \in Row
  BY DEF StoreTypeOK
<1>1. ASSUME NEW i \in Job, NEW status \in StatusIn, NEW max \in MaxRetriesIn,
             CreateJob(i, status, max)
      PROVE  \A j \in Job : StampKept(j)
  <2> DEFINE state == IF status = "unset" THEN "pending" ELSE status
             retries == IF max = 0 THEN 3 ELSE max
             new == [NewRow EXCEPT !.state = state, !.max_retries = retries]
  <2>1. jobs' = [jobs EXCEPT ![i] = new] /\ jobs[i].state = "none"
    BY <1>1 DEF CreateJob
  <2>2. new.claim_term = 0
    BY DEF NewRow
  <2> HIDE DEF new
  <2> QED BY <1>0, <2>1, <2>2 DEF StampKept
<1>2. ASSUME NEW i \in Job, NEW new, jobs' = [jobs EXCEPT ![i] = new],
             new.claim_term = jobs[i].claim_term
      PROVE  \A j \in Job : StampKept(j)
  BY <1>0, <1>2 DEF StampKept
<1>3. ASSUME NEW w \in Worker, NEW i \in Job, Complete(w, i)
      PROVE  \A j \in Job : StampKept(j)
  <2> DEFINE new == [jobs[i] EXCEPT !.state = "done", !.worker_id = NoWorker,
                                    !.lease_expires_at = NULL]
  <2>1. jobs' = [jobs EXCEPT ![i] = new]
    BY <1>0, <1>3 DEF Complete
  <2>2. new.claim_term = jobs[i].claim_term
    BY <1>0 DEF Row
  <2> QED BY <1>2, <2>1, <2>2
<1>4. ASSUME NEW w \in Worker, NEW i \in Job, FailJob(w, i)
      PROVE  \A j \in Job : StampKept(j)
  <2> DEFINE n == IF HasRetries(jobs[i]) THEN Backoff(jobs[i]) ELSE jobs[i].next_run_at
  <2>1. jobs' = [jobs EXCEPT ![i] = Released(jobs[i], n)]
    BY <1>4 DEF FailJob
  <2>2. n \in Int
    BY <1>0, BackoffIsInt DEF Row
  <2> HIDE DEF n
  <2>3. Released(jobs[i], n).claim_term = jobs[i].claim_term
    BY <1>0, <2>2, ReleasedColumns
  <2> QED BY <1>2, <2>1, <2>3
<1>5. ASSUME NEW w \in Worker, NEW i \in Job, HeartbeatJob(w, i)
      PROVE  \A j \in Job : StampKept(j)
  <2> DEFINE new == [jobs[i] EXCEPT !.lease_expires_at = LeaseFor]
  <2>1. jobs' = [jobs EXCEPT ![i] = new]
    BY <1>0, <1>5 DEF HeartbeatJob
  <2>2. new.claim_term = jobs[i].claim_term
    BY <1>0 DEF Row
  <2> QED BY <1>2, <2>1, <2>2
<1>6. ASSUME NEW t \in Nat, ReapExpiredLeases(t)
      PROVE  \A j \in Job : StampKept(j)
  <2> TAKE j \in Job
  <2>1. jobs'[j] = jobs[j] \/ jobs'[j] = Released(jobs[j], 0)
    BY <1>6 DEF ReapExpiredLeases
  <2>2. Released(jobs[j], 0).claim_term = jobs[j].claim_term
    BY <1>0, ReleasedColumns
  <2> QED BY <2>1, <2>2 DEF StampKept
<1>7. CASE TickJobs
  <2> TAKE j \in Job
  <2>1. jobs'[j] = Aged(jobs[j])
    BY <1>7 DEF TickJobs
  <2>2. Aged(jobs[j]).claim_term = jobs[j].claim_term
    BY <1>0 DEF Aged, Row
  <2> QED BY <2>1, <2>2 DEF StampKept
<1>8. CASE NewPostgresStore
  <2> TAKE j \in Job
  <2> DEFINE new == [jobs[j] EXCEPT !.lease_expires_at = -1]
  <2>1. jobs'[j] = jobs[j] \/ jobs'[j] = new
    BY <1>8 DEF NewPostgresStore
  <2>2. new.claim_term = jobs[j].claim_term
    BY <1>0 DEF Row
  <2> QED BY <2>1, <2>2 DEF StampKept
<1>9. CASE UNCHANGED storeVars
  BY <1>9 DEF storeVars, StampKept
<1> QED BY <1>1, <1>3, <1>4, <1>5, <1>6, <1>7, <1>8, <1>9

(* The stamp a claim leaves is the caller's term, or a newer one.          *)
LEMMA ClaimStamps ==
    ASSUME StoreTypeOK, NEW t \in Nat, NEW w \in Worker, NEW i \in Job,
           DequeueJob(t, w, i)
    PROVE  /\ jobs'[i].claim_term = Greatest(jobs[i].claim_term, t)
           /\ \A j \in Job \ {i} : jobs'[j] = jobs[j]
<1> DEFINE stamp == Stamp(jobs[i].claim_term, t)
           new == [jobs[i] EXCEPT !.state = "processing", !.worker_id = w,
                                  !.claim_term = stamp, !.lease_expires_at = LeaseFor]
<1>1. jobs \in [Job -> Row] /\ jobs[i] \in Row
  BY DEF StoreTypeOK
<1>2. jobs' = [jobs EXCEPT ![i] = new]
  BY DEF DequeueJob
<1>3. new.claim_term = stamp
  BY <1>1 DEF Row
<1>4. stamp = Greatest(jobs[i].claim_term, t)
  BY DEF Stamp
<1> HIDE DEF new, stamp
<1> QED BY <1>1, <1>2, <1>3, <1>4

StampsBounded ==
    /\ claimer \in [Job -> Nat]
    /\ \A j \in Job : /\ jobs[j].claim_term <= leadership.term
                      /\ claimer[j] <= jobs[j].claim_term

LEMMA StampsInductive ==
    ASSUME StoreTypeOK, StoreInv, StoreTypeOK', LeadTypeOK, LeadTypeOK', WorkBounded,
           StampsBounded, [ClusterNext]_clusterVars
    PROVE  StampsBounded'
<1>0. /\ leadership.term \in Nat /\ leadership'.term \in Nat
      /\ claimer \in [Job -> Nat]
      /\ \A j \in Job : /\ jobs[j].claim_term \in Nat /\ claimer[j] \in Nat
                        /\ jobs[j].claim_term <= leadership.term
                        /\ claimer[j] <= jobs[j].claim_term
                        /\ jobs[j].state = "none" => jobs[j].claim_term = 0
  <2>1. \A j \in Job : jobs[j].state = "none" => jobs[j].claim_term = 0
    BY DEF StoreInv, AttemptLedger, NewRow
  <2> QED BY <2>1, RowTypes DEF LeadTypeOK, StampsBounded
<1>1. leadership.term <= leadership'.term
  BY <1>0, ClusterLeadStep, RowTermStep
<1>2. ASSUME NEW n \in Node, NEW t \in push[n], NEW w \in Worker, NEW i \in Job,
             Claim(n, t, w, i)
      PROVE  StampsBounded'
  <2>1. t \in 1..leadership.term /\ t \in Nat
    BY <1>0, <1>2 DEF WorkBounded
  <2>2. DequeueJob(t, w, i) /\ claimer' = [claimer EXCEPT ![i] = t]
        /\ leadership' = leadership
    BY <1>2 DEF Claim, leadVars
  <2>3. /\ jobs'[i].claim_term = Greatest(jobs[i].claim_term, t)
        /\ \A j \in Job \ {i} : jobs'[j] = jobs[j]
    BY <2>1, <2>2, ClaimStamps
  <2> QED BY <1>0, <2>1, <2>2, <2>3 DEF StampsBounded, Greatest
<1>3. ASSUME claimer' = claimer, \A j \in Job : StampKept(j)
      PROVE  StampsBounded'
  <2>1. ASSUME NEW j \in Job
        PROVE  /\ jobs'[j].claim_term <= leadership'.term
               /\ claimer[j] <= jobs'[j].claim_term
    <3>1. jobs'[j].claim_term = jobs[j].claim_term
      BY <1>0, <1>3 DEF StampKept
    <3> QED BY <1>0, <1>1, <3>1
  <2> QED BY <1>0, <1>3, <2>1 DEF StampsBounded
<1>4. ASSUME NEW n \in Node,
             \/ BeginPush(n) \/ EndPush(n) \/ BeginSweep(n)
             \/ ClusterCrash(n) \/ LoopStep(n)
      PROVE  claimer' = claimer /\ UNCHANGED storeVars
  BY <1>4 DEF BeginPush, EndPush, BeginSweep, ClusterCrash, LoopStep, storeVars, work
<1>5. ASSUME NEW n \in Node, NEW t \in sweep[n], Sweep(n, t) \/ SweepFailed(n, t)
      PROVE  /\ claimer' = claimer /\ t \in Nat
             /\ ReapExpiredLeases(t) \/ UNCHANGED storeVars
  BY <1>5 DEF Sweep, SweepFailed, storeVars, WorkBounded
<1>6. CASE ClientStep \/ ServerStarts
  BY <1>3, <1>6, OnlyClaimsStamp DEF ClientStep, ServerStarts, work
<1>7. CASE Tick
  BY <1>3, <1>7, OnlyClaimsStamp DEF Tick, work
<1>8. CASE UNCHANGED clusterVars
  BY <1>3, <1>8, OnlyClaimsStamp DEF clusterVars, storeVars
<1>9. ASSUME NEW n \in Node,
             \/ BeginPush(n) \/ EndPush(n) \/ BeginSweep(n)
             \/ ClusterCrash(n) \/ LoopStep(n)
      PROVE  StampsBounded'
  BY <1>3, <1>4, <1>9, OnlyClaimsStamp
<1>10. ASSUME NEW n \in Node, NEW t \in sweep[n], Sweep(n, t) \/ SweepFailed(n, t)
       PROVE  StampsBounded'
  BY <1>3, <1>5, <1>10, OnlyClaimsStamp
<1> QED BY <1>2, <1>6, <1>7, <1>8, <1>9, <1>10 DEF ClusterNext

(* The cluster's inductive invariant: the election's, the store's, and the *)
(* order of all terms under way and of all stamps below the row's term.    *)
ClusterInv ==
    /\ StoreTypeOK /\ StoreInv
    /\ LeadTypeOK /\ LeadInv
    /\ WorkBounded /\ StampsBounded

(* No pass, sweep or stamp of any node, deposed or not, is ahead of the    *)
(* leadership row, and no claim is ahead of its row's stamp.               *)
THEOREM ClusterInvariant == ClusterSpec => []ClusterInv
<1>1. ClusterInit => StampsBounded
  <2> SUFFICES ASSUME ClusterInit
               PROVE  StampsBounded
    OBVIOUS
  <2>1. \A j \in Job : jobs[j].claim_term = 0
    BY InitRows DEF ClusterInit, NewRow
  <2>2. leadership.term = 0
    BY DEF ClusterInit, LeadInit
  <2> QED BY <2>1, <2>2 DEF ClusterInit, StampsBounded
<1>2. ASSUME StoreTypeOK, StoreInv, StoreTypeOK', LeadTypeOK, LeadTypeOK',
             WorkBounded, StampsBounded, [ClusterNext]_clusterVars
      PROVE  StampsBounded'
  BY <1>2, StampsInductive
<1>3. ClusterSpec => [](StoreTypeOK /\ StoreInv)
  BY ClusterUsesStore, StoreInvariant, PTL
<1> QED
  BY <1>1, <1>2, <1>3, WorkIsBounded, PTL DEF ClusterSpec, ClusterInv

(* Both tables, the loops and the work under way keep their types.         *)
THEOREM ClusterTypeCorrect == ClusterSpec => []ClusterTypeOK
<1>1. ClusterInv => ClusterTypeOK
  BY DEF ClusterInv, ClusterTypeOK, WorkBounded, StampsBounded
<1> QED BY <1>1, ClusterInvariant, PTL

(* The fencing tokens are in order: what is under way or stamped never runs*)
(* ahead of the leadership row.                                            *)
THEOREM TermsBoundedHolds == ClusterSpec => []TermsBounded
<1>1. ClusterInv => TermsBounded
  BY DEF ClusterInv, TermsBounded, WorkBounded, StampsBounded
<1> QED BY <1>1, ClusterInvariant, PTL

(* Whoever claimed a job and however late the claim landed, once its lease *)
(* has run out a sweep by the newest leader is not fenced off from it.     *)
THEOREM NewestReignRecoversHolds == ClusterSpec => []NewestReignRecovers
<1>1. ClusterInv => NewestReignRecovers
  BY DEF ClusterInv, StampsBounded, NewestReignRecovers, Swept
<1> QED BY <1>1, ClusterInvariant, PTL

(* A sweep that a deposed leader sent off before it lost leadership leaves *)
(* alone every job a newer reign has dispatched since.                     *)
THEOREM LateSweepHarmlessHolds == ClusterSpec => LateSweepHarmless
<1>1. ASSUME ClusterInv, NEW n \in Node, NEW t \in sweep[n], Sweep(n, t),
             NEW j \in Job, jobs'[j] # jobs[j]
      PROVE  claimer[j] <= t
  <2>1. j \in Swept(t)
    BY <1>1 DEF Sweep, ReapExpiredLeases
  <2>2. /\ jobs[j].claim_term <= t /\ claimer[j] <= jobs[j].claim_term
        /\ jobs[j].claim_term \in Nat /\ claimer[j] \in Nat /\ t \in Nat
    BY <1>1, <2>1, RowTypes DEF Swept, ClusterInv, StampsBounded, WorkBounded
  <2> QED BY <2>2
<1>2. ClusterInv /\ [ClusterNext]_clusterVars =>
        [\A n \in Node : \A t \in sweep[n] : Sweep(n, t) =>
            \A j \in Job : jobs'[j] # jobs[j] => claimer[j] <= t]_clusterVars
  BY <1>1
<1> QED BY <1>2, ClusterInvariant, PTL DEF ClusterSpec, LateSweepHarmless
=============================================================================
