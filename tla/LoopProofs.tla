----------------------------- MODULE LoopProofs -----------------------------
(***************************************************************************)
(* What the leadership loop guarantees whichever election it runs on: how  *)
(* each of its steps moves the reign a node holds.  The proofs about the   *)
(* etcd election and about failover rest on these lemmas.                  *)
(***************************************************************************)
EXTENDS LeadLoop, TLAPS

(* The steps of node n's loop by which it wins nothing.                    *)
LoopMoves(n) ==
    \/ CampaignEnded(n) \/ HoldLost(n) \/ ResignReturns(n)
    \/ OwnStep(n) \/ Shutdown(n) \/ Crash(n)

(* Nobody comes to hold a reign it did not hold, or another one.           *)
ReignsKept ==
    \A m \in Node : Reigns(m)' => Reigns(m) /\ Reign(m)' = Reign(m)

LEMMA LoopUnchanged ==
    ASSUME LoopTypeOK, LeadsWhileHolding, UNCHANGED loopVars
    PROVE  LoopTypeOK' /\ LeadsWhileHolding' /\ ReignsKept
BY DEF loopVars, LoopTypeOK, LeadsWhileHolding, ReignsKept, Reigns, Reign

LEMMA LoopMovesKeep ==
    ASSUME LoopTypeOK, LeadsWhileHolding, NEW n \in Node, LoopMoves(n)
    PROVE  LoopTypeOK' /\ LeadsWhileHolding' /\ ReignsKept
<1> USE DEF LoopState, Reigns, Reign
<1>0. /\ ctx \in [Node -> BOOLEAN] /\ loop \in [Node -> LoopState]
      /\ won \in [Node -> Nat] /\ isLead \in [Node -> BOOLEAN]
      /\ term \in [Node -> Nat]
  BY DEF LoopTypeOK
<1>1. \A m \in Node : /\ isLead[m] => loop[m] \in {"hold", "deposed", "returning"}
                      /\ loop[m] \in {"hold", "deposed"} => isLead[m]
  BY DEF LeadsWhileHolding
<1>2. CASE CampaignEnded(n) \/ HoldEnded(n)
  BY <1>0, <1>1, <1>2
  DEF CampaignEnded, HoldEnded, LoopTypeOK, LeadsWhileHolding, ReignsKept
<1>3. CASE HoldLost(n) \/ ResignReturns(n)
  BY <1>0, <1>1, <1>3
  DEF HoldLost, ResignReturns, LoopTypeOK, LeadsWhileHolding, ReignsKept
<1>4. CASE BecomeLead(n)
  BY <1>0, <1>1, <1>4 DEF BecomeLead, LoopTypeOK, LeadsWhileHolding, ReignsKept
<1>5. CASE Demote(n) \/ DemoteToResign(n)
  BY <1>0, <1>1, <1>5
  DEF Demote, DemoteToResign, LoopTypeOK, LeadsWhileHolding, ReignsKept
<1>6. CASE Shutdown(n) \/ Crash(n)
  BY <1>0, <1>1, <1>6 DEF Shutdown, Crash, LoopTypeOK, LeadsWhileHolding, ReignsKept
<1> QED
  BY <1>2, <1>3, <1>4, <1>5, <1>6 DEF LoopMoves, OwnStep

(* Only a node without a reign is told that it has won.                    *)
LEMMA LoopWins ==
    ASSUME LoopTypeOK, LeadsWhileHolding, NEW n \in Node, NEW t \in Nat,
           CampaignReturns(n, t)
    PROVE  /\ LoopTypeOK' /\ LeadsWhileHolding'
           /\ ~Reigns(n) /\ Reigns(n)' /\ Reign(n)' = t
           /\ \A m \in Node \ {n} : Reigns(m)' = Reigns(m) /\ Reign(m)' = Reign(m)
<1> USE DEF LoopState, Reigns, Reign
<1>0. /\ ctx \in [Node -> BOOLEAN] /\ loop \in [Node -> LoopState]
      /\ won \in [Node -> Nat] /\ isLead \in [Node -> BOOLEAN]
      /\ term \in [Node -> Nat]
  BY DEF LoopTypeOK
<1>1. \A m \in Node : /\ isLead[m] => loop[m] \in {"hold", "deposed", "returning"}
                      /\ loop[m] \in {"hold", "deposed"} => isLead[m]
  BY DEF LeadsWhileHolding
<1>2. /\ loop[n] = "campaign" /\ won' = [won EXCEPT ![n] = t]
      /\ loop' = [loop EXCEPT ![n] = "won"] /\ UNCHANGED <<ctx, isLead, term>>
  BY DEF CampaignReturns
<1>3. LoopTypeOK' /\ LeadsWhileHolding'
  BY <1>0, <1>1, <1>2 DEF LoopTypeOK, LeadsWhileHolding
<1>4. ~Reigns(n) /\ Reigns(n)' /\ Reign(n)' = t
  BY <1>0, <1>1, <1>2
<1>5. \A m \in Node \ {n} : Reigns(m)' = Reigns(m) /\ Reign(m)' = Reign(m)
  BY <1>0, <1>2
<1> QED BY <1>3, <1>4, <1>5

LEMMA LoopStarts ==
    ASSUME LoopInit
    PROVE  /\ LoopTypeOK /\ LeadsWhileHolding
           /\ \A n \in Node : ~Reigns(n) /\ ~isLead[n]
           /\ Belief = [n \in Node |-> 0]
BY DEF LoopInit, LoopTypeOK, LoopState, LeadsWhileHolding, Reigns, Belief
=============================================================================
