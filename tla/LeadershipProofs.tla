-------------------------- MODULE LeadershipProofs --------------------------
(***************************************************************************)
(* Proofs about Leadership for every set of nodes, every lease length and  *)
(* every bound on the terms.                                               *)
(***************************************************************************)
EXTENDS Leadership, TLAPS

(* The leadership row's columns stay typed through every statement.        *)
LeadRow == [leader_id : Node \cup {NoLeader}, term : Nat,
            lease_expires_at : -1..Lease]

LEMMA RowStatements ==
    ASSUME LeadTypeOK, NEW n \in Node
    PROVE  /\ WinRow(n) => leadership' \in LeadRow
           /\ [leadership EXCEPT !.lease_expires_at = Lease] \in LeadRow
           /\ ClearedRow(n) \in LeadRow
           /\ [leadership EXCEPT !.lease_expires_at
                 = Countdown(leadership.lease_expires_at, -1)] \in LeadRow
<1>1. leadership \in LeadRow
  BY DEF LeadTypeOK, LeadRow
<1>2. /\ Lease \in -1..Lease /\ -1 \in -1..Lease
      /\ Countdown(leadership.lease_expires_at, -1) \in -1..Lease
  BY <1>1, LeadAssumption DEF LeadRow, Countdown, Greatest
<1>3. WinRow(n) => leadership' \in LeadRow
  BY <1>1, <1>2 DEF WinRow, LeadRow
<1>4. [leadership EXCEPT !.lease_expires_at = Lease] \in LeadRow
  BY <1>1, <1>2 DEF LeadRow
<1>5. ClearedRow(n) \in LeadRow
  BY <1>1, <1>2 DEF LeadRow, ClearedRow
<1>6. [leadership EXCEPT !.lease_expires_at
         = Countdown(leadership.lease_expires_at, -1)] \in LeadRow
  BY <1>1, <1>2 DEF LeadRow
<1> QED BY <1>3, <1>4, <1>5, <1>6

LEMMA LeadTypeInductive ==
    ASSUME LeadTypeOK, [LeadNext]_leadVars
    PROVE  LeadTypeOK'
<1> USE DEF LoopState
<1>0. /\ leadership \in LeadRow /\ ctx \in [Node -> BOOLEAN]
      /\ loop \in [Node -> LoopState] /\ won \in [Node -> Nat]
      /\ isLead \in [Node -> BOOLEAN] /\ term \in [Node -> Nat]
  BY DEF LeadTypeOK, LoopTypeOK, LeadRow
<1> SUFFICES /\ leadership' \in LeadRow /\ ctx' \in [Node -> BOOLEAN]
             /\ loop' \in [Node -> LoopState] /\ won' \in [Node -> Nat]
             /\ isLead' \in [Node -> BOOLEAN] /\ term' \in [Node -> Nat]
  BY DEF LeadTypeOK, LoopTypeOK, LeadRow
<1>1. ASSUME NEW n \in Node, CampaignWon(n)
      PROVE  /\ leadership' \in LeadRow /\ ctx' \in [Node -> BOOLEAN]
             /\ loop' \in [Node -> LoopState] /\ won' \in [Node -> Nat]
             /\ isLead' \in [Node -> BOOLEAN] /\ term' \in [Node -> Nat]
  <2>1. leadership' \in LeadRow
    BY <1>1, RowStatements DEF CampaignWon
  <2>2. leadership'.term \in Nat
    BY <2>1 DEF LeadRow
  <2> QED BY <1>0, <1>1, <2>1, <2>2 DEF CampaignWon, CampaignReturns
<1>2. ASSUME NEW n \in Node, CampaignReplyLost(n) \/ Renew(n) \/ Resign(n)
      PROVE  /\ leadership' \in LeadRow /\ ctx' \in [Node -> BOOLEAN]
             /\ loop' \in [Node -> LoopState] /\ won' \in [Node -> Nat]
             /\ isLead' \in [Node -> BOOLEAN] /\ term' \in [Node -> Nat]
  BY <1>0, <1>2, RowStatements
  DEF CampaignReplyLost, Renew, Resign, ResignReturns, loopVars
<1>3. ASSUME NEW n \in Node, RowUntouched(n)
      PROVE  /\ leadership' \in LeadRow /\ ctx' \in [Node -> BOOLEAN]
             /\ loop' \in [Node -> LoopState] /\ won' \in [Node -> Nat]
             /\ isLead' \in [Node -> BOOLEAN] /\ term' \in [Node -> Nat]
  BY <1>0, <1>3 DEF RowUntouched, CampaignEnded, OwnStep, BecomeLead, HoldEnded,
                    Demote, DemoteToResign
<1>4. ASSUME NEW n \in Node,
             \/ RenewRefused(n) \/ ResignFailed(n)
             \/ Shutdown(n) /\ UNCHANGED leadership
             \/ Crash(n) /\ UNCHANGED leadership
      PROVE  /\ leadership' \in LeadRow /\ ctx' \in [Node -> BOOLEAN]
             /\ loop' \in [Node -> LoopState] /\ won' \in [Node -> Nat]
             /\ isLead' \in [Node -> BOOLEAN] /\ term' \in [Node -> Nat]
  BY <1>0, <1>4 DEF RenewRefused, HoldLost, ResignFailed, ResignReturns,
                    Shutdown, Crash
<1>5. CASE TickLeadership
  <2>1. leadership' \in LeadRow
    <3>1. leadership' = [leadership EXCEPT !.lease_expires_at
                           = Countdown(leadership.lease_expires_at, -1)]
      BY <1>5 DEF TickLeadership
    <3>2. Countdown(leadership.lease_expires_at, -1) \in -1..Lease
      BY <1>0, LeadAssumption DEF LeadRow, Countdown, Greatest
    <3> QED BY <1>0, <3>1, <3>2 DEF LeadRow
  <2> QED BY <1>0, <1>5, <2>1 DEF TickLeadership, loopVars
<1>6. CASE UNCHANGED leadVars
  BY <1>0, <1>6 DEF leadVars
<1> QED
  BY <1>1, <1>2, <1>3, <1>4, <1>5, <1>6 DEF LeadNext, NodeStep

(* The row and every node's loop keep their types, and leadership is never *)
(* leased for longer than one lease.                                       *)
THEOREM LeadTypeCorrect == LeadSpec => []LeadTypeOK
<1>1. LeadInit => LeadTypeOK
  BY LeadAssumption DEF LeadInit, LoopInit, LeadTypeOK, LoopTypeOK, LoopState
<1>2. LeadTypeOK /\ [LeadNext]_leadVars => LeadTypeOK'
  BY LeadTypeInductive
<1> QED BY <1>1, <1>2, PTL DEF LeadSpec
-----------------------------------------------------------------------------
(***************************************************************************)
(* How one step moves the reign a node holds, and the row, told apart by   *)
(* what matters to LeadInv: node n takes a new term from the row, node n   *)
(* loses or keeps what it has, or only the row's lease moves.              *)
(***************************************************************************)
Takes(n) ==
    /\ leadership'.leader_id = n
    /\ leadership'.term = leadership.term + 1
    /\ ~Reigns(n)
    /\ \A m \in Node \ {n} : Reigns(m)' = Reigns(m) /\ Reign(m)' = Reign(m)
    /\ Reigns(n)' => Reign(n)' = leadership'.term
Keeps ==
    /\ leadership'.term = leadership.term
    /\ \A m \in Node : Reigns(m)' => Reigns(m) /\ Reign(m)' = Reign(m)
    /\ \/ leadership'.leader_id = leadership.leader_id
       \/ \A m \in Node : /\ leadership.leader_id = m => ~Reigns(m)'
                          /\ leadership'.leader_id # m

LEMMA LeadStep ==
    ASSUME LeadTypeOK, LeadInv, [LeadNext]_leadVars
    PROVE  /\ Keeps \/ \E n \in Node : Takes(n)
           /\ LeadsWhileHolding'
<1> USE DEF Reigns, Reign
<1>0. /\ leadership \in LeadRow /\ ctx \in [Node -> BOOLEAN]
      /\ loop \in [Node -> LoopState] /\ won \in [Node -> Nat]
      /\ isLead \in [Node -> BOOLEAN] /\ term \in [Node -> Nat]
  BY DEF LeadTypeOK, LoopTypeOK, LeadRow
<1>1. ASSUME NEW n \in Node
      PROVE  /\ isLead[n] => loop[n] \in {"hold", "deposed", "returning"}
             /\ loop[n] \in {"hold", "deposed"} => isLead[n]
  BY DEF LeadInv, LeadsWhileHolding
<1>2. ASSUME NEW n \in Node, CampaignWon(n)
      PROVE  Takes(n) /\ LeadsWhileHolding'
  <2>1. /\ leadership'.leader_id = n /\ leadership'.term = leadership.term + 1
        /\ won' = [won EXCEPT ![n] = leadership'.term]
        /\ loop' = [loop EXCEPT ![n] = "won"]
        /\ isLead' = isLead /\ term' = term
        /\ loop[n] = "campaign"
    BY <1>2 DEF CampaignWon, CampaignReturns, WinRow
  <2> QED BY <1>0, <1>1, <2>1 DEF Takes, LeadsWhileHolding
<1>3. ASSUME NEW n \in Node, CampaignReplyLost(n)
      PROVE  Takes(n) /\ LeadsWhileHolding'
  <2>1. /\ leadership'.leader_id = n /\ leadership'.term = leadership.term + 1
        /\ UNCHANGED <<won, loop, isLead, term>>
        /\ loop[n] = "campaign"
    BY <1>3 DEF CampaignReplyLost, WinRow, loopVars
  <2> QED BY <1>0, <1>1, <2>1 DEF Takes, LeadsWhileHolding
<1>4. ASSUME NEW n \in Node, RowUntouched(n)
      PROVE  Keeps /\ LeadsWhileHolding'
  <2>1. leadership' = leadership
    BY <1>4 DEF RowUntouched
  <2>2. CASE CampaignEnded(n) \/ HoldEnded(n)
    BY <1>0, <1>1, <2>1, <2>2 DEF CampaignEnded, HoldEnded, Keeps, LeadsWhileHolding
  <2>3. CASE BecomeLead(n)
    BY <1>0, <1>1, <2>1, <2>3 DEF BecomeLead, Keeps, LeadsWhileHolding
  <2>4. CASE Demote(n) \/ DemoteToResign(n)
    BY <1>0, <1>1, <2>1, <2>4 DEF Demote, DemoteToResign, Keeps, LeadsWhileHolding
  <2> QED BY <1>4, <2>2, <2>3, <2>4 DEF RowUntouched, OwnStep
<1>5. ASSUME NEW n \in Node, Renew(n)
      PROVE  Keeps /\ LeadsWhileHolding'
  <2>1. /\ leadership'.leader_id = leadership.leader_id
        /\ leadership'.term = leadership.term
        /\ UNCHANGED <<won, loop, isLead, term>>
    BY <1>0, <1>5 DEF Renew, LeadRow, loopVars
  <2> QED BY <1>1, <2>1 DEF Keeps, LeadsWhileHolding
<1>6. ASSUME NEW n \in Node, RenewRefused(n) \/ ResignFailed(n)
      PROVE  Keeps /\ LeadsWhileHolding'
  BY <1>0, <1>1, <1>6 DEF RenewRefused, HoldLost, ResignFailed, ResignReturns,
                          Keeps, LeadsWhileHolding
<1>7. ASSUME NEW n \in Node, Crash(n), UNCHANGED leadership
      PROVE  Keeps /\ LeadsWhileHolding'
  BY <1>0, <1>1, <1>7 DEF Crash, Keeps, LeadsWhileHolding
<1>8. ASSUME NEW n \in Node, Resign(n)
      PROVE  Keeps /\ LeadsWhileHolding'
  <2>1. /\ loop[n] = "resigning" /\ loop' = [loop EXCEPT ![n] = "stopped"]
        /\ UNCHANGED <<won, isLead, term>>
        /\ leadership' = ClearedRow(n)
    BY <1>8 DEF Resign, ResignReturns
  <2>2. leadership'.term = leadership.term
    BY <1>0, <2>1 DEF ClearedRow, LeadRow
  <2>3. \/ leadership'.leader_id = leadership.leader_id
        \/ leadership.leader_id = n /\ leadership'.leader_id = NoLeader
    BY <1>0, <2>1 DEF ClearedRow, LeadRow
  <2>4. ~isLead[n]
    BY <1>1, <2>1
  <2> QED BY <1>0, <1>1, <2>1, <2>2, <2>3, <2>4, LeadAssumption
          DEF Keeps, LeadsWhileHolding
<1>9. ASSUME NEW n \in Node, Shutdown(n), UNCHANGED leadership
      PROVE  Keeps /\ LeadsWhileHolding'
  BY <1>1, <1>9 DEF Shutdown, Keeps, LeadsWhileHolding
<1>10. ASSUME TickLeadership
       PROVE  Keeps /\ LeadsWhileHolding'
  <2>1. /\ leadership'.leader_id = leadership.leader_id
        /\ leadership'.term = leadership.term
        /\ UNCHANGED <<won, loop, isLead, term>>
    BY <1>0, <1>10 DEF TickLeadership, LeadRow, loopVars
  <2> QED BY <1>1, <2>1 DEF Keeps, LeadsWhileHolding
<1>11. ASSUME UNCHANGED leadVars
       PROVE  Keeps /\ LeadsWhileHolding'
  BY <1>1, <1>11 DEF leadVars, Keeps, LeadsWhileHolding
<1> QED
  BY <1>2, <1>3, <1>4, <1>5, <1>6, <1>7, <1>8, <1>9, <1>10, <1>11
  DEF LeadNext, NodeStep

LEMMA LeadInvInductive ==
    ASSUME LeadTypeOK, LeadInv, [LeadNext]_leadVars
    PROVE  LeadInv'
<1>1. /\ leadership.term \in Nat
      /\ \A m \in Node : Reigns(m) => Reign(m) \in 1..leadership.term
      /\ \A m \in Node : Reigns(m) => Reign(m) \in Nat
  BY DEF LeadTypeOK, LeadInv, ReignsOrdered
<1>2. CASE Keeps
  <2>1. ReignsDistinct'
    BY <1>2 DEF Keeps, LeadInv, ReignsDistinct
  <2>2. ReignsOrdered'
    <3> SUFFICES ASSUME NEW m \in Node, Reigns(m)'
                 PROVE  /\ Reign(m)' \in 1..leadership'.term
                        /\ leadership'.leader_id = m => Reign(m)' = leadership'.term
                        /\ leadership'.leader_id # m => Reign(m)' < leadership'.term
      BY DEF ReignsOrdered
    <3>1. /\ Reigns(m) /\ Reign(m)' = Reign(m) /\ leadership'.term = leadership.term
      BY <1>2 DEF Keeps
    <3>2. /\ Reign(m) \in 1..leadership.term
          /\ leadership.leader_id = m => Reign(m) = leadership.term
          /\ leadership.leader_id # m => Reign(m) < leadership.term
      BY <3>1 DEF LeadInv, ReignsOrdered
    <3>3. leadership'.leader_id = m <=> leadership.leader_id = m
      BY <1>2 DEF Keeps
    <3> QED BY <3>1, <3>2, <3>3
  <2> QED BY <2>1, <2>2, LeadStep DEF LeadInv
<1>3. ASSUME NEW n \in Node, Takes(n)
      PROVE  LeadInv'
  <2>1. leadership'.term = leadership.term + 1 /\ leadership'.leader_id = n
    BY <1>3 DEF Takes
  <2>2. ASSUME NEW m \in Node, m # n, Reigns(m)'
        PROVE  /\ Reigns(m) /\ Reign(m)' = Reign(m)
               /\ Reign(m) \in 1..leadership.term
    BY <1>1, <1>3, <2>2 DEF Takes
  <2>3. Reigns(n)' => Reign(n)' = leadership.term + 1
    BY <1>3, <2>1 DEF Takes
  <2>4. ReignsDistinct'
    <3> SUFFICES ASSUME NEW k \in Node, NEW m \in Node, Reigns(k)', Reigns(m)', k # m
                 PROVE  Reign(k)' # Reign(m)'
      BY DEF ReignsDistinct
    <3>1. CASE k = n
      BY <1>1, <2>2, <2>3, <3>1
    <3>2. CASE m = n
      BY <1>1, <2>2, <2>3, <3>2
    <3>3. CASE k # n /\ m # n
      BY <2>2, <3>3 DEF LeadInv, ReignsDistinct
    <3> QED BY <3>1, <3>2, <3>3
  <2>5. ReignsOrdered'
    <3> SUFFICES ASSUME NEW m \in Node, Reigns(m)'
                 PROVE  /\ Reign(m)' \in 1..leadership'.term
                        /\ leadership'.leader_id = m => Reign(m)' = leadership'.term
                        /\ leadership'.leader_id # m => Reign(m)' < leadership'.term
      BY DEF ReignsOrdered
    <3>1. CASE m = n
      BY <1>1, <2>1, <2>3, <3>1
    <3>2. CASE m # n
      BY <1>1, <2>1, <2>2, <3>2
    <3> QED BY <3>1, <3>2
  <2> QED BY <2>4, <2>5, LeadStep DEF LeadInv
<1> QED BY <1>2, <1>3, LeadStep

THEOREM LeadInvariant == LeadSpec => [](LeadTypeOK /\ LeadInv)
<1>1. LeadInit => LeadInv
  BY DEF LeadInit, LoopInit, LeadInv, ReignsDistinct, ReignsOrdered, LeadsWhileHolding,
         Reigns, Reign
<1>2. LeadTypeOK /\ LeadInv /\ [LeadNext]_leadVars => LeadInv'
  BY LeadInvInductive
<1> QED BY <1>1, <1>2, LeadTypeCorrect, PTL DEF LeadSpec

(* Two nodes that believe they lead never do so under the same term.       *)
THEOREM OneLeaderPerTermHolds == LeadSpec => []OneLeaderPerTerm
<1>1. LeadInv => OneLeaderPerTerm
  BY DEF LeadInv, ReignsDistinct, LeadsWhileHolding, OneLeaderPerTerm, Reigns, Reign
<1> QED BY <1>1, LeadInvariant, PTL

(* Every believer's term is one the row has reached, the row's holder is   *)
(* in the newest reign, and everybody else is behind it.                   *)
THEOREM BelieversBehindRowHolds == LeadSpec => []BelieversBehindRow
<1>1. LeadInv => BelieversBehindRow
  BY DEF LeadInv, ReignsOrdered, LeadsWhileHolding, BelieversBehindRow, Reigns, Reign
<1> QED BY <1>1, LeadInvariant, PTL

(* A resigned row leaves nobody who believes in the reign that resigned.   *)
THEOREM CleanHandover == LeadSpec => []NobodyLeadsAfterResignation
<1>1. LeadInv => NobodyLeadsAfterResignation
  BY LeadAssumption
  DEF LeadInv, ReignsOrdered, LeadsWhileHolding, NobodyLeadsAfterResignation,
      Reigns, Reign
<1> QED BY <1>1, LeadInvariant, PTL
-----------------------------------------------------------------------------
(***************************************************************************)
(* What one step may do to the leadership row.                             *)
(***************************************************************************)
LEMMA LeadRowStep ==
    ASSUME LeadTypeOK, LeadInv, LeadNext
    PROVE  \/ \E n \in Node : /\ Lapsed
                              /\ leadership'.leader_id = n
                              /\ leadership'.term = leadership.term + 1
           \/ \E n \in Node : /\ leadership.leader_id = n
                              /\ loop[n] = "resigning" /\ ~isLead[n]
                              /\ leadership'.leader_id = NoLeader
                              /\ leadership'.term = leadership.term
                              /\ leadership'.lease_expires_at = -1
           \/ /\ leadership'.leader_id = leadership.leader_id
              /\ leadership'.term = leadership.term
              /\ \/ ~Lapsed
                 \/ leadership'.lease_expires_at = leadership.lease_expires_at
                 \/ leadership'.lease_expires_at = -1
<1>0. leadership \in LeadRow
  BY DEF LeadTypeOK, LeadRow
<1>1. ASSUME NEW n \in Node, CampaignWon(n) \/ CampaignReplyLost(n)
      PROVE  /\ Lapsed
             /\ leadership'.leader_id = n
             /\ leadership'.term = leadership.term + 1
  BY <1>1 DEF CampaignWon, CampaignReplyLost, WinRow
<1>2. ASSUME NEW n \in Node, Renew(n)
      PROVE  /\ leadership'.leader_id = leadership.leader_id
             /\ leadership'.term = leadership.term
             /\ ~Lapsed
  BY <1>0, <1>2 DEF Renew, HoldsRow, LeadRow
<1>3. ASSUME NEW n \in Node, Resign(n)
      PROVE  \/ /\ leadership.leader_id = n
                /\ loop[n] = "resigning" /\ ~isLead[n]
                /\ leadership'.leader_id = NoLeader
                /\ leadership'.term = leadership.term
                /\ leadership'.lease_expires_at = -1
             \/ leadership' = leadership
  <2>1. loop[n] = "resigning" /\ leadership' = ClearedRow(n)
    BY <1>3 DEF Resign, ResignReturns
  <2>2. ~isLead[n]
    BY <2>1 DEF LeadInv, LeadsWhileHolding
  <2> QED BY <1>0, <2>1, <2>2 DEF ClearedRow, LeadRow
<1>4. ASSUME NEW n \in Node,
             RowUntouched(n) \/ RenewRefused(n) \/ ResignFailed(n)
      PROVE  leadership' = leadership
  BY <1>4 DEF RowUntouched, RenewRefused, ResignFailed
<1>5. ASSUME TickLeadership
      PROVE  /\ leadership'.leader_id = leadership.leader_id
             /\ leadership'.term = leadership.term
             /\ ~Lapsed \/ leadership'.lease_expires_at = -1
  <2>1. leadership' = [leadership EXCEPT !.lease_expires_at
                         = Countdown(leadership.lease_expires_at, -1)]
    BY <1>5 DEF TickLeadership
  <2>2. Lapsed => Countdown(leadership.lease_expires_at, -1) = -1
    BY <1>0 DEF LeadRow, Lapsed, Countdown, Greatest
  <2> QED BY <1>0, <2>1, <2>2 DEF LeadRow
<1> QED
  BY <1>1, <1>2, <1>3, <1>4, <1>5 DEF LeadNext, NodeStep

(* A live lease changes hands only by the resignation of its holder, which *)
(* has stopped leading by then, and a term is only ever won, one at a time.*)
THEOREM LiveLeaseIsSafeHolds == LeadSpec => LiveLeaseIsSafe
<1>1. ASSUME LeadTypeOK, LeadInv, LeadNext
      PROVE  /\ ~Lapsed /\ leadership'.leader_id # leadership.leader_id =>
                   /\ leadership'.leader_id = NoLeader
                   /\ \E n \in Node : /\ leadership.leader_id = n
                                      /\ loop[n] = "resigning" /\ ~isLead[n]
             /\ leadership'.term # leadership.term =>
                   /\ leadership'.term = leadership.term + 1
                   /\ leadership'.leader_id \in Node
  BY <1>1, LeadRowStep, Zenon
<1> QED BY <1>1, LeadInvariant, PTL DEF LeadSpec, LiveLeaseIsSafe

(* A lapsed lease comes back to life only under a new term.                *)
THEOREM NoResurrectionHolds == LeadSpec => NoResurrection
<1>1. ASSUME LeadTypeOK, LeadInv, LeadNext, Lapsed, ~Lapsed'
      PROVE  leadership'.term > leadership.term
  <2>1. leadership.term \in Nat
    BY <1>1 DEF LeadTypeOK
  <2>2. leadership.lease_expires_at < 0 /\ ~(leadership'.lease_expires_at < 0)
    BY <1>1 DEF Lapsed
  <2>3. \/ leadership'.term = leadership.term + 1
        \/ leadership'.lease_expires_at = -1
        \/ leadership'.lease_expires_at = leadership.lease_expires_at
    BY <1>1, LeadRowStep
  <2> QED BY <2>1, <2>2, <2>3
<1> QED BY <1>1, LeadInvariant, PTL DEF LeadSpec, NoResurrection
-----------------------------------------------------------------------------
(***************************************************************************)
(* The leased row implements the abstract Election: a Takes step is a win, *)
(* or a term wasted on a node that never learns of it, and a Keeps step at *)
(* most makes nodes stop believing.                                        *)
(***************************************************************************)
LEMMA TakesWins ==
    ASSUME LeadTypeOK, LeadInv, NEW n \in Node, Takes(n)
    PROVE  Promise!Win(n) \/ Promise!MoveOn
<1>1. /\ leadership.term \in Nat /\ leadership'.term = leadership.term + 1
      /\ leadership.term <= leadership'.term
      /\ 1..leadership.term \subseteq 1..leadership'.term
  BY DEF Takes, LeadTypeOK
<1>2. /\ Belief[n] = 0 /\ \A m \in Node \ {n} : Belief'[m] = Belief[m]
      /\ Belief \in [Node -> {Belief[m] : m \in Node}]
  BY DEF Takes, Belief
<1>3. CASE Reigns(n)'
  <2>1. Belief' = [Belief EXCEPT ![n] = leadership'.term]
    BY <1>2, <1>3 DEF Takes, Belief
  <2>2. /\ leadership'.term \in 1..leadership'.term
        /\ leadership'.term \notin 1..leadership.term
    BY <1>1
  <2> QED BY <1>1, <1>2, <2>1, <2>2 DEF Promise!Win
<1>4. CASE ~Reigns(n)'
  <2>1. Belief' = [m \in Node |-> IF m \in {} THEN 0 ELSE Belief[m]]
    BY <1>2, <1>4 DEF Belief
  <2>2. \E S \in SUBSET Node :
           Belief' = [m \in Node |-> IF m \in S THEN 0 ELSE Belief[m]]
    <3> WITNESS {} \in SUBSET Node
    <3> QED BY <2>1
  <2> QED BY <1>1, <2>2 DEF Promise!MoveOn
<1> QED BY <1>3, <1>4

LEMMA KeepsMovesOn ==
    ASSUME LeadTypeOK, Keeps
    PROVE  Promise!MoveOn
<1> DEFINE S == {m \in Node : ~Reigns(m)'}
<1>1. Belief' = [m \in Node |-> IF m \in S THEN 0 ELSE Belief[m]]
  BY DEF Keeps, Belief
<1>2. leadership'.term = leadership.term /\ leadership.term \in Nat
  BY DEF Keeps, LeadTypeOK
<1>3. \E T \in SUBSET Node :
         Belief' = [m \in Node |-> IF m \in T THEN 0 ELSE Belief[m]]
  <2> WITNESS S \in SUBSET Node
  <2> QED BY <1>1
<1>4. /\ leadership.term <= leadership'.term
      /\ 1..leadership.term \subseteq 1..leadership'.term
  BY <1>2
<1> QED BY <1>3, <1>4 DEF Promise!MoveOn

(* A lease on a row gives what the loop asks of an Election, for any number*)
(* of nodes and with replies lost: no term is won twice, the reign the row *)
(* stands by only moves up, and nobody believes in one beyond it.          *)
THEOREM LeadImplementsElection == LeadSpec => ImplementsElection
<1>1. LeadInit => Promise!ElectionInit
  <2> SUFFICES ASSUME LeadInit
               PROVE  Promise!ElectionInit
    OBVIOUS
  <2>1. leadership.term = 0 /\ 1..leadership.term = {}
    BY DEF LeadInit
  <2>2. Belief = [n \in Node |-> 0]
    BY DEF LeadInit, LoopInit, Belief, Reigns
  <2> QED BY <2>1, <2>2 DEF Promise!ElectionInit
<1>2. ASSUME LeadTypeOK, LeadInv, [LeadNext]_leadVars
      PROVE  Promise!ElectionNext
  <2>1. CASE Keeps
    BY <1>2, <2>1, KeepsMovesOn DEF Promise!ElectionNext
  <2>2. ASSUME NEW n \in Node, Takes(n)
        PROVE  Promise!ElectionNext
    BY <1>2, <2>2, TakesWins DEF Promise!ElectionNext
  <2> QED BY <1>2, <2>1, <2>2, LeadStep
<1> QED
  BY <1>1, <1>2, LeadInvariant, PTL
  DEF LeadSpec, ImplementsElection, Promise!ElectionSpec
=============================================================================
