------------------------- MODULE EtcdElectionProofs -------------------------
(***************************************************************************)
(* Proofs about EtcdElection for every set of nodes and every bound on the *)
(* revisions: leases may lapse at any time, revoking one may fail, a win   *)
(* may be learnt of after the key is gone.                                 *)
(***************************************************************************)
EXTENDS EtcdElection, LoopProofs, WellFoundedInduction

(***************************************************************************)
(* What a step does, told apart by what matters to EtcdInv: node n wins    *)
(* under its key, node n draws a new key, or nobody gains anything: keys   *)
(* go, sessions of nodes without a reign go, reigns end.                   *)
(***************************************************************************)
WinsKey(n) ==
    /\ Waiting(n) /\ FirstInLine(n)
    /\ session' = [session EXCEPT ![n] = TRUE]
    /\ UNCHANGED <<keys, revision, mine>>
    /\ CampaignReturns(n, mine[n])
DrawsKey(n) ==
    /\ Join(n)
    /\ ReignsKept
FreedOnly ==
    /\ keys' \subseteq keys
    /\ revision' = revision
    /\ mine' \in [Node -> 0..MaxRev] /\ session' \in [Node -> BOOLEAN]
    /\ \A n \in Node : mine'[n] \in {0, mine[n]}
    /\ ReignsKept
    /\ \A n \in Node : Reigns(n)' => mine'[n] = mine[n] /\ session'[n] = session[n]
    /\ \A n \in Node : Waiting(n)' => Waiting(n)

(* Closing a session, whether or not the lease could be revoked.           *)
LEMMA SessionGoes ==
    ASSUME EtcdTypeOK, NEW n \in Node, SessionClosed(n)
    PROVE  /\ keys' \subseteq keys /\ revision' = revision
           /\ mine' \in [Node -> 0..MaxRev] /\ session' \in [Node -> BOOLEAN]
           /\ mine'[n] = 0
           /\ \A m \in Node \ {n} : mine'[m] = mine[m] /\ session'[m] = session[m]
<1>1. keys' \subseteq keys /\ revision' = revision
  BY DEF SessionClosed
<1>2. /\ mine \in [Node -> 0..MaxRev] /\ session \in [Node -> BOOLEAN]
      /\ mine' = [mine EXCEPT ![n] = 0] /\ session' = [session EXCEPT ![n] = FALSE]
      /\ 0 \in 0..MaxRev
  BY EtcdAssumption DEF SessionClosed, EtcdTypeOK
<1> QED BY <1>1, <1>2

LEMMA EtcdStepKinds ==
    ASSUME EtcdTypeOK, EtcdInv, [EtcdNext]_etcdVars
    PROVE  /\ LoopTypeOK' /\ LeadsWhileHolding'
           /\ FreedOnly \/ \E n \in Node : WinsKey(n) \/ DrawsKey(n)
<1>0. /\ keys \subseteq 1..revision /\ revision \in 0..MaxRev
      /\ mine \in [Node -> 0..MaxRev] /\ session \in [Node -> BOOLEAN]
      /\ LoopTypeOK /\ LeadsWhileHolding /\ MaxRev \in Nat
  BY EtcdAssumption DEF EtcdTypeOK, EtcdInv
<1>a. /\ loop \in [Node -> LoopState] /\ isLead \in [Node -> BOOLEAN]
      /\ \A m \in Node : /\ isLead[m] => loop[m] \in {"hold", "deposed", "returning"}
                         /\ loop[m] = "deposed" => session[m]
  BY <1>0 DEF LoopTypeOK, LeadsWhileHolding, EtcdInv, ReignsByKey, Reigns
<1>1. ASSUME NEW n \in Node, SessionClosed(n), UNCHANGED loopVars,
             loop[n] = "campaign"
      PROVE  LoopTypeOK' /\ LeadsWhileHolding' /\ FreedOnly
  <2>1. LoopTypeOK' /\ LeadsWhileHolding' /\ ReignsKept
    BY <1>0, <1>1, LoopUnchanged
  <2>2. ~Reigns(n)'
    BY <1>a, <1>1 DEF Reigns, loopVars
  <2>3. \A m \in Node : Waiting(m)' => Waiting(m)
    BY <1>0, <1>1 DEF Waiting, SessionClosed, loopVars
  <2> QED BY <1>1, <2>1, <2>2, <2>3, SessionGoes DEF FreedOnly
<1>2. ASSUME NEW n \in Node, Join(n)
      PROVE  LoopTypeOK' /\ LeadsWhileHolding' /\ DrawsKey(n)
  BY <1>0, <1>2, LoopUnchanged DEF Join, DrawsKey
<1>3. ASSUME NEW n \in Node, CampaignWon(n)
      PROVE  LoopTypeOK' /\ LeadsWhileHolding' /\ WinsKey(n)
  <2>1. CampaignReturns(n, mine[n]) /\ mine[n] \in Nat
    BY <1>0, <1>3 DEF CampaignWon
  <2>2. LoopTypeOK' /\ LeadsWhileHolding'
    BY <1>0, <2>1, LoopWins
  <2> QED BY <1>3, <2>2 DEF CampaignWon, WinsKey
<1>4. ASSUME NEW n \in Node, LoopMoves(n), UNCHANGED <<keys, revision, mine>>,
             session' = [session EXCEPT ![n] = TRUE], CampaignEnded(n)
      PROVE  LoopTypeOK' /\ LeadsWhileHolding' /\ FreedOnly
  <2>1. LoopTypeOK' /\ LeadsWhileHolding' /\ ReignsKept
    BY <1>0, <1>4, LoopMovesKeep
  <2>2. ~Reigns(n)'
    BY <1>a, <1>4 DEF Reigns, CampaignEnded
  <2>3. \A m \in Node : Waiting(m)' => Waiting(m)
    BY <1>0, <1>a, <1>4 DEF Waiting, CampaignEnded
  <2> QED BY <1>0, <1>4, <2>1, <2>2, <2>3 DEF FreedOnly
<1>5. ASSUME NEW n \in Node, Resign(n)
      PROVE  LoopTypeOK' /\ LeadsWhileHolding' /\ FreedOnly
  <2>1. LoopTypeOK' /\ LeadsWhileHolding' /\ ReignsKept
    BY <1>0, <1>5, LoopMovesKeep DEF Resign, LoopMoves
  <2>2. ~Reigns(n)'
    BY <1>a, <1>5 DEF Reigns, Resign, ResignReturns
  <2>3. \A m \in Node : Waiting(m)' => Waiting(m)
    BY <1>0, <1>a, <1>5 DEF Waiting, Resign, ResignReturns, SessionClosed
  <2> QED BY <1>5, <2>1, <2>2, <2>3, SessionGoes DEF FreedOnly, Resign
<1>6. ASSUME NEW n \in Node, LoopMoves(n), UNCHANGED <<keys, revision, mine, session>>
      PROVE  LoopTypeOK' /\ LeadsWhileHolding' /\ FreedOnly
  <2>1. LoopTypeOK' /\ LeadsWhileHolding' /\ ReignsKept
    BY <1>0, <1>6, LoopMovesKeep
  <2>2. ASSUME NEW m \in Node, Waiting(m)'
        PROVE  Waiting(m)
    <3>1. /\ loop'[m] = "campaign" /\ ~session[m] /\ mine[m] # 0
      BY <1>6, <2>2 DEF Waiting
    <3>2. loop[m] = "campaign" \/ loop[m] = "deposed"
      BY <1>6, <1>a, <3>1
      DEF LoopMoves, OwnStep, CampaignEnded, HoldLost, ResignReturns, BecomeLead,
          HoldEnded, Demote, DemoteToResign, Shutdown, Crash
    <3> QED BY <1>a, <3>1, <3>2 DEF Waiting
  <2> QED BY <1>0, <1>6, <2>1, <2>2 DEF FreedOnly
<1>7. ASSUME keys' \subseteq keys, UNCHANGED <<revision, mine, session, loopVars>>
      PROVE  LoopTypeOK' /\ LeadsWhileHolding' /\ FreedOnly
  <2>1. LoopTypeOK' /\ LeadsWhileHolding' /\ ReignsKept
    BY <1>0, <1>7, LoopUnchanged
  <2> QED BY <1>0, <1>7, <2>1 DEF FreedOnly, Waiting, loopVars
<1>8. ASSUME NEW n \in Node, EtcdStep(n)
      PROVE  /\ LoopTypeOK' /\ LeadsWhileHolding'
             /\ FreedOnly \/ WinsKey(n) \/ DrawsKey(n)
  <2>1. CASE CloseSession(n)
    BY <1>1, <2>1 DEF CloseSession
  <2>2. CASE CampaignFailed(n)
    BY <1>1, <2>2 DEF CampaignFailed, Waiting
  <2>3. CASE CampaignDropped(n)
    BY <1>4, <2>3 DEF CampaignDropped, LoopMoves
  <2>4. CASE \/ CampaignGivenUp(n) \/ SessionDone(n) \/ KeysUntouched(n)
             \/ Shutdown(n) /\ UNCHANGED <<keys, revision, mine, session>>
             \/ Crash(n) /\ UNCHANGED <<keys, revision, mine, session>>
    BY <1>6, <2>4 DEF CampaignGivenUp, SessionDone, KeysUntouched, LoopMoves
  <2> QED BY <1>2, <1>3, <1>5, <1>8, <2>1, <2>2, <2>3, <2>4 DEF EtcdStep
<1>9. CASE \E k \in keys : Lapse(k)
  BY <1>7, <1>9 DEF Lapse
<1>10. CASE UNCHANGED etcdVars
  BY <1>7, <1>10 DEF etcdVars, loopVars
<1> QED BY <1>8, <1>9, <1>10 DEF EtcdNext

LEMMA EtcdInductive ==
    ASSUME EtcdTypeOK, EtcdInv, [EtcdNext]_etcdVars
    PROVE  EtcdTypeOK' /\ EtcdInv'
<1>0. /\ keys \subseteq 1..revision /\ revision \in 0..MaxRev
      /\ mine \in [Node -> 0..MaxRev] /\ session \in [Node -> BOOLEAN]
      /\ LoopTypeOK /\ LeadsWhileHolding /\ MaxRev \in Nat
      /\ LoopTypeOK' /\ LeadsWhileHolding'
  BY EtcdAssumption, EtcdStepKinds DEF EtcdTypeOK, EtcdInv
<1>1. /\ \A n \in Node : mine[n] <= revision
      /\ \A n, m \in Node : n # m /\ mine[n] = mine[m] => mine[n] = 0
      /\ \A n \in Node : Reigns(n) =>
            /\ session[n] /\ mine[n] # 0 /\ Reign(n) = mine[n]
            /\ \A k \in keys : k >= mine[n]
  BY DEF EtcdInv, KeysAreOwn, ReignsByKey, FirstInLine
<1> SUFFICES /\ keys' \subseteq 1..revision' /\ revision' \in 0..MaxRev
             /\ mine' \in [Node -> 0..MaxRev] /\ session' \in [Node -> BOOLEAN]
             /\ \A n \in Node : mine'[n] <= revision'
             /\ \A n, m \in Node : n # m /\ mine'[n] = mine'[m] => mine'[n] = 0
             /\ \A n \in Node : Reigns(n)' =>
                   /\ session'[n] /\ mine'[n] # 0 /\ Reign(n)' = mine'[n]
                   /\ \A k \in keys' : k >= mine'[n]
  BY <1>0 DEF EtcdTypeOK, EtcdInv, KeysAreOwn, ReignsByKey, FirstInLine
<1>2. CASE FreedOnly
  BY <1>0, <1>1, <1>2 DEF FreedOnly, ReignsKept
<1>3. ASSUME NEW n \in Node, WinsKey(n)
      PROVE  /\ keys' \subseteq 1..revision' /\ revision' \in 0..MaxRev
             /\ mine' \in [Node -> 0..MaxRev] /\ session' \in [Node -> BOOLEAN]
             /\ \A m \in Node : mine'[m] <= revision'
             /\ \A l, m \in Node : l # m /\ mine'[l] = mine'[m] => mine'[l] = 0
             /\ \A m \in Node : Reigns(m)' =>
                   /\ session'[m] /\ mine'[m] # 0 /\ Reign(m)' = mine'[m]
                   /\ \A k \in keys' : k >= mine'[m]
  <2>1. /\ Reign(n)' = mine[n]
        /\ \A m \in Node \ {n} : Reigns(m)' = Reigns(m) /\ Reign(m)' = Reign(m)
    BY <1>0, <1>3, LoopWins DEF WinsKey
  <2> QED BY <1>0, <1>1, <1>3, <2>1 DEF WinsKey, Waiting, FirstInLine
<1>4. ASSUME NEW n \in Node, DrawsKey(n)
      PROVE  /\ keys' \subseteq 1..revision' /\ revision' \in 0..MaxRev
             /\ mine' \in [Node -> 0..MaxRev] /\ session' \in [Node -> BOOLEAN]
             /\ \A m \in Node : mine'[m] <= revision'
             /\ \A l, m \in Node : l # m /\ mine'[l] = mine'[m] => mine'[l] = 0
             /\ \A m \in Node : Reigns(m)' =>
                   /\ session'[m] /\ mine'[m] # 0 /\ Reign(m)' = mine'[m]
                   /\ \A k \in keys' : k >= mine'[m]
  <2>1. /\ ~session[n] /\ revision < MaxRev /\ revision' = revision + 1
        /\ keys' = keys \cup {revision + 1}
        /\ mine' = [mine EXCEPT ![n] = revision + 1]
        /\ session' = session /\ ReignsKept
    BY <1>4 DEF DrawsKey, Join
  <2>2. ~Reigns(n) /\ ~Reigns(n)'
    BY <1>1, <2>1 DEF ReignsKept
  <2> QED BY <1>0, <1>1, <2>1, <2>2 DEF ReignsKept
<1> QED BY <1>2, <1>3, <1>4, EtcdStepKinds

(* However calls to etcd fail and leases lapse, a node reigns only under   *)
(* the key of the session it has open, and ahead of it no key is left.     *)
THEOREM EtcdInvariant == EtcdSpec => [](EtcdTypeOK /\ EtcdInv)
<1>1. EtcdInit => EtcdTypeOK /\ EtcdInv
  <2> SUFFICES ASSUME EtcdInit
               PROVE  EtcdTypeOK /\ EtcdInv
    OBVIOUS
  <2>1. /\ LoopTypeOK /\ LeadsWhileHolding /\ \A n \in Node : ~Reigns(n)
    BY LoopStarts DEF EtcdInit
  <2> QED
    BY <2>1, EtcdAssumption
    DEF EtcdInit, EtcdTypeOK, EtcdInv, KeysAreOwn, ReignsByKey
<1>2. EtcdTypeOK /\ EtcdInv /\ [EtcdNext]_etcdVars => (EtcdTypeOK /\ EtcdInv)'
  BY EtcdInductive
<1> QED BY <1>1, <1>2, PTL DEF EtcdSpec

(* Every key etcd holds was drawn by a campaign, and the election state    *)
(* and the loop keep their types.                                          *)
THEOREM EtcdTypeCorrect == EtcdSpec => []EtcdTypeOK
BY EtcdInvariant, PTL

(* Two nodes that believe they lead never do so under the same revision.   *)
THEOREM EtcdOneLeaderPerTerm == EtcdSpec => []OneLeaderPerTerm
<1>1. EtcdInv => OneLeaderPerTerm
  BY DEF EtcdInv, KeysAreOwn, ReignsByKey, LeadsWhileHolding, OneLeaderPerTerm,
         Reigns, Reign
<1> QED BY <1>1, EtcdInvariant, PTL

(* A believer whose key is alive is ahead of every other believer, however *)
(* late Campaign's win or Hold's loss reached a node.                      *)
THEOREM LiveKeyIsNewestHolds == EtcdSpec => []LiveKeyIsNewest
<1>1. ASSUME EtcdTypeOK, EtcdInv
      PROVE  LiveKeyIsNewest
  <2>1. SUFFICES ASSUME NEW n \in Node, NEW m \in Node, Reigns(n), Reign(n) \in keys,
                        Reigns(m), n # m
                 PROVE  Reign(m) < Reign(n)
    BY DEF LiveKeyIsNewest
  <2>2. /\ Reign(n) = mine[n] /\ Reign(m) = mine[m] /\ mine[n] # 0
        /\ \A k \in keys : k >= mine[m]
    BY <1>1, <2>1 DEF EtcdInv, ReignsByKey, FirstInLine
  <2>3. mine[n] # mine[m] /\ mine[n] \in Nat /\ mine[m] \in Nat
    BY <1>1, <2>1, <2>2, EtcdAssumption DEF EtcdInv, KeysAreOwn, EtcdTypeOK
  <2> QED BY <2>1, <2>2, <2>3
<1> QED BY <1>1, EtcdInvariant, PTL
-----------------------------------------------------------------------------
(***************************************************************************)
(* The leased key implements the abstract Election.  The reign etcd stands *)
(* by is its oldest key: it exists because a set of revisions has a least  *)
(* member, and it moves up because new keys are newer than all others.     *)
(***************************************************************************)
LEMMA LeastRevision ==
    ASSUME NEW S \in SUBSET Nat, S # {}
    PROVE  \E k \in S : \A l \in S : k <= l
<1>1. PICK k \in S : \A l \in S : ~(<<l, k>> \in OpToRel(<, Nat))
  BY WFMin, NatLessThanWellFounded
<1>2. \A l \in S : ~(l < k)
  BY <1>1 DEF OpToRel
<1> QED BY <1>2

Oldest(S, r) == IF S = {} THEN r + 1 ELSE CHOOSE k \in S : \A l \in S : k <= l

LEMMA OldestKeyIs ==
    ASSUME NEW S \in SUBSET Nat, NEW r \in Nat, S \subseteq 1..r
    PROVE  /\ Oldest(S, r) \in 1..(r + 1)
           /\ \A k \in S : Oldest(S, r) <= k
           /\ Oldest(S, r) \in S \/ Oldest(S, r) = r + 1
<1> DEFINE o == Oldest(S, r)
<1> SUFFICES o \in 1..(r + 1) /\ (\A k \in S : o <= k) /\ (o \in S \/ o = r + 1)
  OBVIOUS
<1>0. o = IF S = {} THEN r + 1 ELSE CHOOSE k \in S : \A l \in S : k <= l
  BY DEF Oldest
<1> HIDE DEF o
<1>1. CASE S = {}
  BY <1>0, <1>1
<1>2. CASE S # {}
  <2>1. \E k \in S : \A l \in S : k <= l
    BY <1>2, LeastRevision
  <2>2. o \in S /\ \A l \in S : o <= l
    BY <1>0, <1>2, <2>1
  <2>3. o \in 1..r
    BY <2>2
  <2> QED BY <2>2, <2>3
<1> QED BY <1>1, <1>2

Spent == {k \in 1..revision : \A n \in Node : ~(Waiting(n) /\ mine[n] = k)}

LEMMA OldestKeyNow ==
    ASSUME EtcdTypeOK
    PROVE  /\ OldestKey \in 1..(revision + 1)
           /\ \A k \in keys : OldestKey <= k
           /\ OldestKey \in keys \/ OldestKey = revision + 1
<1>1. keys \in SUBSET Nat /\ revision \in Nat /\ keys \subseteq 1..revision
  BY EtcdAssumption DEF EtcdTypeOK
<1>2. OldestKey = Oldest(keys, revision)
  BY DEF OldestKey, Oldest
<1> QED BY <1>1, <1>2, OldestKeyIs

LEMMA OldestKeyNext ==
    ASSUME EtcdTypeOK'
    PROVE  /\ OldestKey' \in 1..(revision' + 1)
           /\ \A k \in keys' : OldestKey' <= k
           /\ OldestKey' \in keys' \/ OldestKey' = revision' + 1
<1>1. keys' \in SUBSET Nat /\ revision' \in Nat /\ keys' \subseteq 1..revision'
  BY EtcdAssumption DEF EtcdTypeOK
<1>2. OldestKey' = Oldest(keys', revision')
  BY DEF OldestKey, Oldest
<1> QED BY <1>1, <1>2, OldestKeyIs

(* Neither the oldest key nor the spent revisions ever move back.          *)
LEMMA PromiseMovesUp ==
    ASSUME EtcdTypeOK, EtcdInv, [EtcdNext]_etcdVars
    PROVE  OldestKey <= OldestKey' /\ Spent \subseteq Spent'
<1>0. /\ EtcdTypeOK' /\ revision \in Nat /\ revision' \in Nat
      /\ keys \subseteq 1..revision
      /\ mine \in [Node -> Nat] /\ \A n \in Node : mine[n] <= revision
  BY EtcdInductive, EtcdAssumption DEF EtcdTypeOK, EtcdInv, KeysAreOwn
<1>1. /\ revision <= revision'
      /\ \A k \in keys' : k \in keys \/ k = revision + 1
      /\ keys' \subseteq keys \/ revision' = revision + 1
      /\ \A n \in Node : Waiting(n)' =>
            (Waiting(n) /\ mine'[n] = mine[n]) \/ mine'[n] = revision + 1
  <2>1. CASE FreedOnly
    BY <1>0, <2>1 DEF FreedOnly, Waiting
  <2>2. ASSUME NEW n \in Node, WinsKey(n)
        PROVE  /\ revision' = revision /\ keys' = keys
               /\ \A m \in Node : Waiting(m)' => Waiting(m) /\ mine'[m] = mine[m]
    <3>1. /\ loop' = [loop EXCEPT ![n] = "won"] /\ mine' = mine
          /\ session' = [session EXCEPT ![n] = TRUE]
          /\ loop \in [Node -> LoopState] /\ session \in [Node -> BOOLEAN]
      BY <2>2 DEF WinsKey, CampaignReturns, EtcdTypeOK, LoopTypeOK
    <3> QED BY <2>2, <3>1 DEF WinsKey, Waiting
  <2>3. ASSUME NEW n \in Node, DrawsKey(n)
        PROVE  /\ revision' = revision + 1 /\ keys' = keys \cup {revision + 1}
               /\ \A m \in Node : Waiting(m)' =>
                     (Waiting(m) /\ mine'[m] = mine[m]) \/ mine'[m] = revision + 1
    BY <1>0, <2>3 DEF DrawsKey, Join, Waiting, loopVars
  <2> QED BY <1>0, <2>1, <2>2, <2>3, EtcdStepKinds
<1>2. OldestKey <= OldestKey'
  BY <1>0, <1>1, OldestKeyNow, OldestKeyNext
<1>3. Spent \subseteq Spent'
  <2> SUFFICES ASSUME NEW k \in Spent
               PROVE  k \in Spent'
    OBVIOUS
  <2>1. k \in 1..revision /\ \A n \in Node : ~(Waiting(n) /\ mine[n] = k)
    BY DEF Spent
  <2>2. k \in 1..revision' /\ k # revision + 1
    BY <1>0, <1>1, <2>1
  <2>3. \A n \in Node : ~(Waiting(n)' /\ mine'[n] = k)
    BY <1>1, <2>1, <2>2
  <2> QED BY <2>2, <2>3 DEF Spent
<1> QED BY <1>2, <1>3

LEMMA ReignsKeptMovesOn ==
    ASSUME ReignsKept, OldestKey <= OldestKey', Spent \subseteq Spent'
    PROVE  Promise!MoveOn
<1> DEFINE S == {m \in Node : ~Reigns(m)'}
<1>1. Belief' = [m \in Node |-> IF m \in S THEN 0 ELSE Belief[m]]
  BY DEF ReignsKept, Belief
<1>2. \E T \in SUBSET Node :
         Belief' = [m \in Node |-> IF m \in T THEN 0 ELSE Belief[m]]
  <2> WITNESS S \in SUBSET Node
  <2> QED BY <1>1
<1> QED BY <1>2 DEF Promise!MoveOn, Spent

LEMMA WinsKeyWins ==
    ASSUME EtcdTypeOK, EtcdInv, EtcdTypeOK', NEW n \in Node, WinsKey(n),
           OldestKey <= OldestKey', Spent \subseteq Spent'
    PROVE  Promise!Win(n)
<1>1. /\ mine[n] \in Nat /\ mine[n] # 0 /\ mine[n] <= revision /\ revision \in Nat
      /\ \A m \in Node : m # n => mine[m] # mine[n]
      /\ \A k \in keys : k >= mine[n]
      /\ keys' = keys /\ revision' = revision /\ mine' = mine
      /\ Waiting(n) /\ CampaignReturns(n, mine[n])
  BY EtcdAssumption
  DEF WinsKey, EtcdInv, KeysAreOwn, EtcdTypeOK, Waiting, FirstInLine
<1>2. /\ ~Reigns(n) /\ Reigns(n)' /\ Reign(n)' = mine[n]
      /\ \A m \in Node \ {n} : Reigns(m)' = Reigns(m) /\ Reign(m)' = Reign(m)
  BY <1>1, LoopWins DEF EtcdTypeOK, EtcdInv
<1>3. Belief[n] = 0 /\ Belief' = [Belief EXCEPT ![n] = mine[n]]
  BY <1>2 DEF Belief
<1>4. mine[n] \in 1..OldestKey'
  BY <1>1, OldestKeyNext
<1>5. mine[n] \notin Spent
  BY <1>1 DEF Spent
<1>6. mine[n] \in Spent'
  <2>1. ~Waiting(n)'
    BY <1>1 DEF Waiting, CampaignReturns, EtcdTypeOK, LoopTypeOK
  <2>2. \A m \in Node : ~(Waiting(m)' /\ mine'[m] = mine[n])
    BY <1>1, <2>1
  <2>3. mine[n] \in 1..revision'
    BY <1>1
  <2> QED BY <2>2, <2>3 DEF Spent
<1> QED
  BY <1>3, <1>4, <1>5, <1>6 DEF Promise!Win, Spent

(* A leased key gives what the loop asks of an Election, whichever calls   *)
(* fail and whenever leases lapse: no revision is won twice, not even by a *)
(* node that campaigns again, and nobody believes in a reign beyond the    *)
(* oldest key.                                                             *)
THEOREM EtcdImplementsElection == EtcdSpec => ImplementsElection
<1>1. EtcdInit => Promise!ElectionInit
  <2> SUFFICES ASSUME EtcdInit
               PROVE  Promise!ElectionInit
    OBVIOUS
  <2>1. OldestKey \in Nat /\ Spent = {}
    BY DEF EtcdInit, OldestKey, Spent
  <2>2. Belief = [n \in Node |-> 0]
    BY LoopStarts DEF EtcdInit
  <2> QED BY <2>1, <2>2 DEF Promise!ElectionInit, Spent
<1>2. ASSUME EtcdTypeOK, EtcdInv, [EtcdNext]_etcdVars
      PROVE  Promise!ElectionNext
  <2>1. OldestKey <= OldestKey' /\ Spent \subseteq Spent' /\ EtcdTypeOK'
    BY <1>2, PromiseMovesUp, EtcdInductive
  <2>2. CASE ReignsKept
    BY <2>1, <2>2, ReignsKeptMovesOn DEF Promise!ElectionNext
  <2>3. ASSUME NEW n \in Node, WinsKey(n)
        PROVE  Promise!ElectionNext
    BY <1>2, <2>1, <2>3, WinsKeyWins DEF Promise!ElectionNext
  <2> QED BY <1>2, <2>2, <2>3, EtcdStepKinds DEF FreedOnly, DrawsKey
<1> QED
  BY <1>1, <1>2, EtcdInvariant, PTL
  DEF EtcdSpec, ImplementsElection, Promise!ElectionSpec
=============================================================================
