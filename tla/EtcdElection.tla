---------------------------- MODULE EtcdElection ----------------------------
(***************************************************************************)
(* Leader election by a leased key: the etcdElection of                    *)
(* internal/server/election_etcd.go under the loop of module LeadLoop.     *)
(*                                                                         *)
(* Of etcd, which is external, the model has what the code relies on: a    *)
(* candidate's key is numbered with a store revision that never repeats, a *)
(* campaign waits until no key older than its own is left, and a key lives *)
(* as long as its session's lease, which may lapse at any time and does    *)
(* lapse once nothing keeps it alive.  Any call may fail: revoking a lease *)
(* may, which leaves the key behind, and so may a campaign whose key is    *)
(* already there.  The code does not ask after Campaign whether its own    *)
(* key is still alive, so a win may come too late.                         *)
(***************************************************************************)
EXTENDS LeadLoop

CONSTANT MaxRev \* bound: no key is created beyond this revision

ASSUME EtcdAssumption == MaxRev \in Nat

VARIABLES
    keys,       \* the candidates' keys that etcd holds, as revisions
    revision,   \* the revision of the newest one ever created
    mine,       \* mine[n]: the revision of the key of n's last session, or 0
    session     \* session[n]: e.session and e.elect are set

etcdVars == <<keys, revision, mine, session, ctx, loop, won, isLead, term>>

EtcdTypeOK ==
    /\ keys \subseteq 1..revision
    /\ revision \in 0..MaxRev
    /\ mine \in [Node -> 0..MaxRev]
    /\ session \in [Node -> BOOLEAN]
    /\ LoopTypeOK

EtcdInit ==
    /\ keys = {}
    /\ revision = 0
    /\ mine = [n \in Node |-> 0]
    /\ session = [n \in Node |-> FALSE]
    /\ LoopInit
-----------------------------------------------------------------------------
(* session.Close: the keepalive stops, and the lease is revoked if the     *)
(* call gets through.                                                      *)
SessionClosed(n) ==
    /\ keys' \in {keys, keys \ {mine[n]}}
    /\ mine' = [mine EXCEPT ![n] = 0]
    /\ session' = [session EXCEPT ![n] = FALSE]
    /\ UNCHANGED revision

(* campaignOnce starts by dropping the session of the last reign ...       *)
CloseSession(n) ==
    /\ loop[n] = "campaign"
    /\ session[n]
    /\ SessionClosed(n)
    /\ UNCHANGED loopVars

(* ... and opens another, under which elect.Campaign creates a key.  An    *)
(* etcd that cannot be reached is asked again later.                       *)
JoinUncounted(n) ==  \* mutant
    /\ loop[n] = "campaign"
    /\ ~session[n] /\ mine[n] = 0
    /\ keys' = keys \cup {revision + 1}
    /\ mine' = [mine EXCEPT ![n] = revision + 1]
    /\ UNCHANGED <<revision, session, loopVars>>
Join(n) ==
    /\ loop[n] = "campaign"
    /\ ~session[n] /\ mine[n] = 0
    /\ revision < MaxRev
    /\ revision' = revision + 1
    /\ keys' = keys \cup {revision'}
    /\ mine' = [mine EXCEPT ![n] = revision']
    /\ UNCHANGED <<session, loopVars>>

Waiting(n) == loop[n] = "campaign" /\ ~session[n] /\ mine[n] # 0

(* elect.Campaign has no older key left to wait for.                       *)
FirstInLineButOne(n) ==  \* mutant
    \A k, l \in keys : k < mine[n] /\ l < mine[n] => k = l
FirstInLine(n) == \A k \in keys : k >= mine[n]

(* The session is kept for Hold and Resign, and Campaign returns the       *)
(* revision the key was created at ...                                     *)
CampaignWonAtHead(n) ==  \* mutant
    /\ Waiting(n) /\ FirstInLine(n)
    /\ session' = [session EXCEPT ![n] = TRUE]
    /\ ctx[n]
    /\ CampaignReturns(n, revision)
    /\ UNCHANGED <<keys, revision, mine>>
CampaignWon(n) ==
    /\ Waiting(n) /\ FirstInLine(n)
    /\ session' = [session EXCEPT ![n] = TRUE]
    /\ ctx[n]
    /\ CampaignReturns(n, mine[n])
    /\ UNCHANGED <<keys, revision, mine>>

(* ... unless the context has ended meanwhile: the win is dropped, and Run *)
(* returns without a reign to resign.                                      *)
CampaignDropped(n) ==
    /\ Waiting(n) /\ FirstInLine(n)
    /\ session' = [session EXCEPT ![n] = TRUE]
    /\ CampaignEnded(n)
    /\ UNCHANGED <<keys, revision, mine>>

(* elect.Campaign fails; the loop of Campaign tries again, or ends with    *)
(* the context.                                                            *)
CampaignFailed(n) ==
    /\ Waiting(n)
    /\ SessionClosed(n)
    /\ UNCHANGED loopVars

CampaignGivenUp(n) ==
    /\ ~session[n] /\ mine[n] = 0
    /\ CampaignEnded(n)
    /\ UNCHANGED <<keys, revision, mine, session>>

(* Hold: the session's channel closes when its lease is lost or its        *)
(* keepalive fails, and also, soon after, when the context ends: a Hold    *)
(* that finds both channels closed takes either.                           *)
SessionDone(n) ==
    /\ HoldLost(n)
    /\ UNCHANGED <<keys, revision, mine, session>>

(* Resign deletes the key and closes the session; e.session is dropped     *)
(* even if neither call gets through.                                      *)
Resign(n) ==
    /\ SessionClosed(n)
    /\ ResignReturns(n)

(* A lease lapses.                                                         *)
Lapse(k) ==
    /\ keys' = keys \ {k}
    /\ UNCHANGED <<revision, mine, session, loopVars>>

KeysUntouched(n) ==
    /\ OwnStep(n)
    /\ UNCHANGED <<keys, revision, mine, session>>

EtcdStep(n) ==
    \/ CloseSession(n) \/ Join(n)
    \/ CampaignWon(n) \/ CampaignDropped(n) \/ CampaignFailed(n)
    \/ CampaignGivenUp(n)
    \/ SessionDone(n) \/ Resign(n) \/ KeysUntouched(n)
    \/ Shutdown(n) /\ UNCHANGED <<keys, revision, mine, session>>
    \/ Crash(n) /\ UNCHANGED <<keys, revision, mine, session>>

EtcdNext ==
    \/ \E n \in Node : EtcdStep(n)
    \/ \E k \in keys : Lapse(k)

EtcdSpec == EtcdInit /\ [][EtcdNext]_etcdVars

(* A keepalive runs from the creation of the session until it is closed,   *)
(* its context ends, or Hold has been told that it is over.                *)
KeptForever(k) ==  \* mutant
    \E n \in Node : loop[n] \notin Down
Kept(k) ==
    \E n \in Node : /\ mine[n] = k /\ ctx[n]
                    /\ Waiting(n) \/ loop[n] \in {"won", "hold"}

(* The loop runs, a campaign that is first in line hears of it, a leader   *)
(* whose key is gone is told, and a lease nothing keeps alive runs out.    *)
(* Nothing is assumed of signals, crashes, failing calls, nor that a       *)
(* leader keeps its lease.                                                 *)
EtcdProgress(n) ==
    \/ CloseSession(n) \/ Join(n)
    \/ CampaignWon(n) \/ CampaignDropped(n) \/ CampaignGivenUp(n)
    \/ mine[n] \notin keys /\ SessionDone(n)
    \/ Waiting(n) /\ ~ctx[n] /\ CampaignFailed(n)
    \/ Resign(n) \/ KeysUntouched(n)

EtcdFairness ==
    /\ \A n \in Node : WF_etcdVars(EtcdProgress(n))
    /\ WF_etcdVars(\E k \in keys : ~Kept(k) /\ Lapse(k))

FairEtcdSpec == EtcdSpec /\ EtcdFairness
-----------------------------------------------------------------------------
(* Properties.                                                             *)

(* The lease fences: a believer whose key is alive is ahead of every other *)
(* believer, however late a win or the word of a loss arrived.             *)
LiveKeyIsNewest ==
    \A n, m \in Node : Reigns(n) /\ Reign(n) \in keys /\ Reigns(m) /\ n # m =>
       Reign(m) < Reign(n)

(* The inductive invariant behind it and OneLeaderPerTerm: a revision is   *)
(* one node's only, a node reigns under the key of the session it has      *)
(* open, and whoever won had no older key before it and never will.        *)
KeysAreOwn ==
    /\ \A n \in Node : mine[n] <= revision
    /\ \A n, m \in Node : n # m /\ mine[n] = mine[m] => mine[n] = 0
ReignsByKey ==
    \A n \in Node : Reigns(n) =>
       /\ session[n] /\ mine[n] # 0 /\ Reign(n) = mine[n]
       /\ FirstInLine(n)
EtcdInv == KeysAreOwn /\ ReignsByKey /\ LeadsWhileHolding

(* A leased key keeps the promise of an Election, with the oldest key as   *)
(* the reign etcd stands by; a revision is spent once the campaign it was  *)
(* drawn for is over, won or not.                                          *)
OldestKey ==
    IF keys = {} THEN revision + 1
    ELSE CHOOSE k \in keys : \A l \in keys : k <= l
Promise == INSTANCE Election
              WITH reign <- OldestKey,
                   spent <- {k \in 1..revision :
                               \A n \in Node : ~(Waiting(n) /\ mine[n] = k)},
                   believes <- Belief
ImplementsElection == Promise!ElectionSpec

(* Leadership comes back, whatever was left in etcd: a dead leader's key,  *)
(* the key of a win dropped at shutdown, a deposed leader's own old key it *)
(* could not revoke and now waits behind.  Excused are a cluster with no   *)
(* node left and the end of the revisions.                                 *)
LeaderReturns ==
    (\A n \in Node : ~isLead[n]) ~>
       \/ \E n \in Node : isLead[n]
       \/ \A n \in Node : loop[n] \in Down \/ ~ctx[n]
       \/ revision = MaxRev
=============================================================================
