----------------------------- MODULE Leadership -----------------------------
(***************************************************************************)
(* Leader election by a leased row: the leadership row of                  *)
(* internal/storage/postgres.go and the postgresElection of                *)
(* internal/server/election.go, under the loop of module LeadLoop.         *)
(*                                                                         *)
(* Statements are atomic; the reply to a statement that has committed may  *)
(* be lost.  A statement that fails without committing changes nothing and *)
(* is retried, which is a stuttering step.                                 *)
(***************************************************************************)
EXTENDS Postgres, LeadLoop

CONSTANTS
    NoLeader,   \* the empty leader_id
    Lease,      \* postgresElection.lease, in ticks
    MaxTerm     \* bound: no campaign is won beyond this term

ASSUME LeadAssumption ==
    /\ NoLeader \notin Node
    /\ Lease \in Nat
    /\ MaxTerm \in Nat

VARIABLE
    leadership  \* the row: leader_id, term, lease_expires_at

leadVars == <<leadership, ctx, loop, won, isLead, term>>

(* The types, and that no statement leases leadership for longer than one  *)
(* lease from now.                                                         *)
LeadTypeOK ==
    /\ leadership \in [leader_id : Node \cup {NoLeader}, term : Nat,
                       lease_expires_at : -1..Lease]
    /\ LoopTypeOK

(* The schema's row has no leader and a lease of 'epoch'.                  *)
LeadInit ==
    /\ leadership = [leader_id |-> NoLeader, term |-> 0, lease_expires_at |-> -1]
    /\ LoopInit
-----------------------------------------------------------------------------
(* The three statements on the leadership row.                             *)

(* WHERE lease_expires_at < CURRENT_TIMESTAMP                              *)
LapsedAndFree ==  \* mutant
    leadership.lease_expires_at < 0 /\ leadership.leader_id = NoLeader
Lapsed == leadership.lease_expires_at < 0

WinRowSameTerm(n) ==  \* mutant
    /\ Lapsed
    /\ leadership.term < MaxTerm
    /\ leadership' = [leader_id |-> n, term |-> Greatest(leadership.term, 1),
                      lease_expires_at |-> Lease]
WinRowLongLease(n) ==  \* mutant
    /\ Lapsed
    /\ leadership.term < MaxTerm
    /\ leadership' = [leader_id |-> n, term |-> leadership.term + 1,
                      lease_expires_at |-> Lease + 1]
WinRowUnfenced(n) ==  \* mutant
    /\ leadership.term < MaxTerm
    /\ leadership' = [leader_id |-> n, term |-> leadership.term + 1,
                      lease_expires_at |-> Lease]
WinRow(n) ==
    /\ Lapsed
    /\ leadership.term < MaxTerm
    /\ leadership' = [leader_id |-> n, term |-> leadership.term + 1,
                      lease_expires_at |-> Lease]

(* WHERE leader_id = $1 AND lease_expires_at >= CURRENT_TIMESTAMP          *)
HoldsRowForever(n) == leadership.leader_id = n  \* mutant
HoldsRow(n) == leadership.leader_id = n /\ ~Lapsed

ClearedRow(n) ==
    IF leadership.leader_id = n
    THEN [leadership EXCEPT !.leader_id = NoLeader, !.lease_expires_at = -1]
    ELSE leadership
-----------------------------------------------------------------------------
(* The steps of the election that Leadership.Run drives.                   *)

(* Campaign's statement found the lease lapsed, and Campaign returns the   *)
(* term it won even when the context has ended meanwhile.                  *)
CampaignWon(n) ==
    /\ WinRow(n)
    /\ CampaignReturns(n, leadership'.term)

(* The statement committed but its reply was lost: the row names a node    *)
(* that goes on campaigning.                                               *)
CampaignReplyLost(n) ==
    /\ loop[n] = "campaign"
    /\ WinRow(n)
    /\ UNCHANGED loopVars

RenewStacking(n) ==  \* mutant
    /\ loop[n] = "hold"
    /\ HoldsRow(n)
    /\ leadership' = [leadership EXCEPT !.lease_expires_at = @ + Lease]
    /\ UNCHANGED loopVars
(* A renewal that commits keeps Hold going whether or not its reply gets   *)
(* through: an error is survived.                                          *)
Renew(n) ==
    /\ loop[n] = "hold"
    /\ HoldsRow(n)
    /\ leadership' = [leadership EXCEPT !.lease_expires_at = Lease]
    /\ UNCHANGED loopVars

(* Refused: somebody else took over, or the lease lapsed.  Hold looks at   *)
(* the context first, so it does not report this once the context ended.   *)
RenewRefused(n) ==
    /\ ~HoldsRow(n)
    /\ ctx[n]
    /\ HoldLost(n)
    /\ UNCHANGED leadership

(* elect.Resign: one attempt, bounded by resignTimeout.                    *)
Resign(n) ==
    /\ leadership' = ClearedRow(n)
    /\ ResignReturns(n)

ResignFailed(n) ==
    /\ ResignReturns(n)
    /\ UNCHANGED leadership

TickLeadership ==
    /\ leadership' = [leadership EXCEPT
                        !.lease_expires_at = Countdown(leadership.lease_expires_at, -1)]
    /\ UNCHANGED loopVars

(* The steps of the loop that leave the row alone.                         *)
RowUntouched(n) ==
    /\ CampaignEnded(n) \/ OwnStep(n)
    /\ UNCHANGED leadership

NodeStep(n) ==
    \/ CampaignWon(n) \/ CampaignReplyLost(n)
    \/ Renew(n) \/ RenewRefused(n)
    \/ Resign(n) \/ ResignFailed(n)
    \/ RowUntouched(n)
    \/ Shutdown(n) /\ UNCHANGED leadership
    \/ Crash(n) /\ UNCHANGED leadership

LeadNext == (\E n \in Node : NodeStep(n)) \/ TickLeadership

LeadSpec == LeadInit /\ [][LeadNext]_leadVars

(* What Run gets round to: a candidate asks again every renewEvery, a      *)
(* leader learns of a refusal at its next renewal, and the rest is code    *)
(* between two such waits.  Nothing is assumed of signals, crashes or lost *)
(* replies, of which way a resignation goes, nor that a leader renews in   *)
(* time.                                                                   *)
LoopProgress(n) ==
    \/ CampaignWon(n) \/ RenewRefused(n) \/ Resign(n) \/ ResignFailed(n)
    \/ RowUntouched(n)

LeadFairness ==
    /\ WF_leadVars(TickLeadership)
    /\ \A n \in Node : WF_leadVars(LoopProgress(n))

FairLeadSpec == LeadSpec /\ LeadFairness
-----------------------------------------------------------------------------
(* Properties.                                                             *)

(* No node believes in a reign the row does not know of, and the node the  *)
(* row names is, if it believes, in the newest reign: every other believer *)
(* is behind it.                                                           *)
BelieversBehindRow ==
    \A n \in Node : isLead[n] =>
       /\ term[n] \in 1..leadership.term
       /\ leadership.leader_id = n => term[n] = leadership.term
       /\ leadership.leader_id \notin {n, NoLeader} => term[n] < leadership.term

(* A clean handover: once the row has been given up, nobody is left who    *)
(* believes in the reign that gave it up.                                  *)
NobodyLeadsAfterResignation ==
    leadership.leader_id = NoLeader =>
       \A n \in Node : isLead[n] => term[n] < leadership.term

(* The inductive invariant behind these and OneLeaderPerTerm: the reigns  *)
(* nodes hold are pairwise different, and are the row's own when the row   *)
(* names the node and older otherwise.                                     *)
ReignsOrdered ==
    \A n \in Node : Reigns(n) =>
       /\ Reign(n) \in 1..leadership.term
       /\ leadership.leader_id = n => Reign(n) = leadership.term
       /\ leadership.leader_id # n => Reign(n) < leadership.term
LeadInv == ReignsDistinct /\ ReignsOrdered /\ LeadsWhileHolding

(* A live lease changes hands only because its holder, already demoted,    *)
(* resigns it; and the term moves up by one at each win, never otherwise.  *)
LiveLeaseIsSafe ==
    [][/\ ~Lapsed /\ leadership'.leader_id # leadership.leader_id =>
             /\ leadership'.leader_id = NoLeader
             /\ \E n \in Node : /\ leadership.leader_id = n
                                /\ loop[n] = "resigning" /\ ~isLead[n]
       /\ leadership'.term # leadership.term =>
             /\ leadership'.term = leadership.term + 1
             /\ leadership'.leader_id \in Node]_leadVars

(* A stalled leader cannot resurrect its lease: a lapsed lease comes to    *)
(* life again only with a new term.                                        *)
NoResurrection ==
    [][Lapsed /\ ~Lapsed' => leadership'.term > leadership.term]_leadVars

(* A cluster with a node left always gets a leader back, after crashes,    *)
(* lost replies and failed resignations alike, until the last reign the    *)
(* term bound allows has lapsed.                                           *)
LeaderlessEnds ==
    (\A n \in Node : ~isLead[n]) ~>
       \/ \E n \in Node : isLead[n]
       \/ \A n \in Node : loop[n] \in Down \/ ~ctx[n]
       \/ leadership.term = MaxTerm /\ Lapsed

(* The leased row keeps the promise of an Election: every win is a new     *)
(* term, the row's, and nobody believes beyond it.                         *)
Promise == INSTANCE Election WITH reign <- leadership.term,
                                  spent <- 1..leadership.term,
                                  believes <- Belief
ImplementsElection == Promise!ElectionSpec
=============================================================================
