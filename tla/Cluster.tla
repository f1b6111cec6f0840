------------------------------- MODULE Cluster ------------------------------
(***************************************************************************)
(* Several servers over one database: the election loop of every node      *)
(* (Leadership) and the two kinds of work its belief gates, the            *)
(* dispatcher's pushes and the reaper's sweeps, on the jobs table          *)
(* (JobStore).                                                             *)
(*                                                                         *)
(* What matters here is that a node reads Leading() and Term() BEFORE the  *)
(* statements they justify: between the two it may stall, be deposed, or   *)
(* win again.  A pass of pushLocked keeps the one term it read for every   *)
(* claim it makes; a sweep keeps the term it read even after the context   *)
(* of its reign was cancelled, when the statement was already on its way,  *)
(* and the reaper of the next reign may then be under way beside it.       *)
(*                                                                         *)
(* Which worker is in line is left open (module Dispatch has the line):    *)
(* any worker may be the one claimed for.  Workers report through any      *)
(* server that has their stream, and reports are not gated on leadership,  *)
(* so Complete, FailJob and HeartbeatJob are as in JobStore.               *)
(***************************************************************************)
EXTENDS JobStore, Leadership

(* The terms callers present to the store are the ones nodes are elected   *)
(* under.                                                                  *)
ASSUME ClusterAssumption == 1..MaxTerm \subseteq Term

VARIABLES
    push,       \* push[n]: the terms of passes of pushLocked under way at n
    sweep,      \* sweep[n]: the terms of sweeps under way at n
    claimer     \* history: the term the last landed claim of job j presented

clusterVars == <<jobs, handouts, leadership, ctx, loop, won, isLead, term,
                 push, sweep, claimer>>
work == <<push, sweep, claimer>>

ClusterInit ==
    /\ StoreInit
    /\ LeadInit
    /\ push = [n \in Node |-> {}]
    /\ sweep = [n \in Node |-> {}]
    /\ claimer = [j \in Job |-> 0]
-----------------------------------------------------------------------------
(* pushLocked, holding d.mu: the gate and the one term for the whole pass. *)
(* Leading() and Term() are two reads; a demotion between them keeps the   *)
(* term and a new reign between them only makes the pass start later, so   *)
(* they are one step.                                                      *)
PushUngated(n) ==  \* mutant
    /\ loop[n] \notin Down
    /\ push[n] = {}
    /\ push' = [push EXCEPT ![n] = {term[n] + 1}]
    /\ UNCHANGED <<jobs, handouts, leadVars, sweep, claimer>>
BeginPush(n) ==
    /\ isLead[n]
    /\ push[n] = {}
    /\ push' = [push EXCEPT ![n] = {term[n]}]
    /\ UNCHANGED <<jobs, handouts, leadVars, sweep, claimer>>

(* One claim of the pass, for the worker at the head of the line.          *)
Claim(n, t, w, j) ==
    /\ t \in push[n]
    /\ DequeueJob(t, w, j)
    /\ claimer' = [claimer EXCEPT ![j] = t]
    /\ UNCHANGED <<leadVars, push, sweep>>

(* Nobody left in line, nothing visible, or an error.                      *)
EndPush(n) ==
    /\ push[n] # {}
    /\ push' = [push EXCEPT ![n] = {}]
    /\ UNCHANGED <<jobs, handouts, leadVars, sweep, claimer>>

(* The reaper's loop: it reads the term and sends the sweep off.  With its *)
(* reign's context cancelled the call returns at once.                     *)
BeginSweep(n) ==
    /\ isLead[n]
    /\ term[n] \notin sweep[n]
    /\ sweep' = [sweep EXCEPT ![n] = @ \cup {term[n]}]
    /\ UNCHANGED <<jobs, handouts, leadVars, push, claimer>>

Sweep(n, t) ==
    /\ t \in sweep[n]
    /\ ReapExpiredLeases(t)
    /\ sweep' = [sweep EXCEPT ![n] = @ \ {t}]
    /\ UNCHANGED <<leadVars, push, claimer>>

(* Cancelled by demotion before it committed, or the database failed.      *)
SweepFailed(n, t) ==
    /\ t \in sweep[n]
    /\ sweep' = [sweep EXCEPT ![n] = @ \ {t}]
    /\ UNCHANGED <<jobs, handouts, leadVars, push, claimer>>

(* A crash takes the node's work under way with it; a statement that still *)
(* lands is one that landed before the crash.                              *)
ClusterCrash(n) ==
    /\ Crash(n) /\ UNCHANGED leadership
    /\ push' = [push EXCEPT ![n] = {}]
    /\ sweep' = [sweep EXCEPT ![n] = {}]
    /\ UNCHANGED <<storeVars, claimer>>

(* One database, one clock.                                                *)
Tick == TickJobs /\ TickLeadership /\ UNCHANGED work

(* The steps of the election loop, a crash apart, change nothing else.     *)
LoopStep(n) ==
    /\ \/ CampaignWon(n) \/ CampaignReplyLost(n)
       \/ Renew(n) \/ RenewRefused(n)
       \/ Resign(n) \/ ResignFailed(n)
       \/ RowUntouched(n)
       \/ Shutdown(n) /\ UNCHANGED leadership
    /\ UNCHANGED <<storeVars, work>>

(* Enqueue is served by every node, leader or not, and reports arrive from *)
(* workers at any time.                                                    *)
ClientStep ==
    /\ \/ \E j \in Job, status \in StatusIn, max \in MaxRetriesIn :
             CreateJob(j, status, max)
       \/ \E w \in Worker, j \in Job : Complete(w, j)
       \/ \E w \in Worker, j \in Job : FailJob(w, j)
       \/ \E w \in Worker, j \in Job : HeartbeatJob(w, j)
    /\ UNCHANGED <<leadVars, work>>

(* A server that starts, one that was down or another, migrates the table  *)
(* before it campaigns; no other server waits for it.                      *)
ServerStarts ==
    /\ NewPostgresStore
    /\ UNCHANGED <<leadVars, work>>

ClusterNext ==
    \/ \E n \in Node : \/ BeginPush(n) \/ EndPush(n) \/ BeginSweep(n)
                       \/ ClusterCrash(n) \/ LoopStep(n)
    \/ \E n \in Node : \E t \in push[n], w \in Worker, j \in Job : Claim(n, t, w, j)
    \/ \E n \in Node : \E t \in sweep[n] : Sweep(n, t)
    \/ \E n \in Node : \E t \in sweep[n] : SweepFailed(n, t)
    \/ ClientStep
    \/ ServerStarts
    \/ Tick

ClusterSpec == ClusterInit /\ [][ClusterNext]_clusterVars

(* The loops run and the clock runs.  A sweep that is attempted again and  *)
(* again is not failed by the database every time (strong fairness); no    *)
(* worker is assumed to report, and no leader to renew in time.            *)
ClusterFairness ==
    /\ WF_clusterVars(Tick)
    /\ \A n \in Node :
          /\ WF_clusterVars(LoopProgress(n) /\ UNCHANGED <<storeVars, work>>)
          /\ WF_clusterVars(BeginSweep(n))
          /\ SF_clusterVars(\E t \in sweep[n] : Sweep(n, t))

FairClusterSpec == ClusterSpec /\ ClusterFairness
-----------------------------------------------------------------------------
(* Properties.                                                             *)

(* The types of the composed state.                                        *)
ClusterTypeOK ==
    /\ StoreTypeOK
    /\ LeadTypeOK
    /\ push \in [Node -> SUBSET Nat]
    /\ sweep \in [Node -> SUBSET Nat]
    /\ claimer \in [Job -> Nat]

(* No reign, pass, sweep or stamp runs ahead of the leadership row, and    *)
(* the stamp of a row is never behind the claim that holds it.             *)
TermsBounded ==
    /\ \A n \in Node : push[n] \cup sweep[n] \subseteq 1..leadership.term
    /\ \A j \in Job : /\ jobs[j].claim_term <= leadership.term
                      /\ claimer[j] <= jobs[j].claim_term

(* The newest reign can recover everything: a job whose lease has run out, *)
(* whoever claimed it and however late that claim landed, is within reach  *)
(* of a sweep by the node the leadership row stands for.                   *)
NewestReignRecovers ==
    \A n \in Node : isLead[n] /\ term[n] = leadership.term =>
       \A j \in Job : Expired(j) => j \in Swept(term[n])

(* A deposed leader's late sweep leaves alone every job that a newer reign *)
(* has dispatched since.                                                   *)
LateSweepHarmless ==
    [][\A n \in Node : \A t \in sweep[n] : Sweep(n, t) =>
          \A j \in Job : jobs'[j] # jobs[j] => claimer[j] <= t]_clusterVars

(* What the comments on DequeueJob and Term say of a deposed leader's late *)
(* claim: that it does not land on a row a newer reign has claimed.        *)
LateClaimRefused ==
    [][\A n \in Node : \A t \in push[n], w \in Worker, j \in Job :
          Claim(n, t, w, j) => t >= jobs[j].claim_term]_clusterVars

(* Crash recovery across leader failures: a job whose lease has run out is *)
(* taken off the silent worker, unless every server goes down or the last  *)
(* reign the term bound allows has lapsed.                                 *)
ExpiredIsRecovered ==
    \A j \in Job : Expired(j) ~>
       \/ ~Expired(j)
       \/ \A n \in Node : loop[n] \in Down \/ ~ctx[n]
       \/ leadership.term = MaxTerm /\ Lapsed
=============================================================================
