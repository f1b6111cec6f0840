--------------------------- MODULE FailoverProofs ---------------------------
(***************************************************************************)
(* Proofs about Failover for any servers, any list the worker goes through *)
(* and any number of overlapping streams.                                  *)
(***************************************************************************)
EXTENDS Failover, LoopProofs

(***************************************************************************)
(* What the type invariant needs to be inductive: a handler enters its     *)
(* select with the term of a reign, and that every term is one of those    *)
(* won so far goes back to Campaign's return.                              *)
(***************************************************************************)
TermsWon ==
    /\ \A n \in Node : won[n] <= newest /\ term[n] <= newest
    /\ ReignsDistinct
    /\ \A n \in Node : Reigns(n) => Reign(n) > 0
    /\ LeadsWhileHolding
FailoverInv == FailoverTypeOK /\ TermsWon

(* The worker's place in the list of servers stays in the list.            *)
LEMMA PlaceInList ==
    ASSUME NEW i \in 1..Len(Servers)
    PROVE  /\ (i % Len(Servers)) + 1 \in 1..Len(Servers)
           /\ Servers[i] \in Node
<1>1. Len(Servers) \in Nat /\ Len(Servers) > 0
  BY FailoverAssumption
<1>2. i % Len(Servers) \in 0..(Len(Servers) - 1)
  BY <1>1
<1> QED BY <1>1, <1>2, FailoverAssumption

(* How the steps move the loop, and what they leave to main, the handlers  *)
(* and the worker.                                                         *)
LoopSide ==
    \/ UNCHANGED loopVars /\ newest' = newest
    \/ \E n \in Node : LoopMoves(n) /\ newest' = newest
    \/ \E n \in Node : /\ newest < MaxTerm /\ newest' = newest + 1
                       /\ CampaignReturns(n, newest')

LEMMA LoopSideStep ==
    ASSUME [FailoverNext]_failoverVars
    PROVE  LoopSide
<1>1. ASSUME NEW n \in Node, Elected(n)
      PROVE  LoopSide
  BY <1>1 DEF Elected, LoopSide
<1>2. ASSUME NEW n \in Node, LoopOnly(n) \/ Told(n)
      PROVE  LoopSide
  BY <1>2 DEF LoopOnly, Told, LoopSide, LoopMoves, mainVars
<1>3. ASSUME NEW n \in Node, Dies(n)
      PROVE  LoopSide
  BY <1>3 DEF Dies, ProcessEnds, LoopSide, LoopMoves
<1>4. ASSUME NEW n \in Node, SignalSeen(n) \/ Drained(n) \/ Forced(n) \/ Exit(n)
      PROVE  LoopSide
  BY <1>4 DEF SignalSeen, Drained, Forced, Exit, ProcessEnds, LoopSide
<1>5. ASSUME NEW s \in Stream, Greet(s) \/ EnterSelect(s) \/ Take(s) \/ Leave(s)
      PROVE  LoopSide
  BY <1>5 DEF Greet, EnterSelect, Take, Leave, Moves, Returns, LoopSide, mainVars
<1>6. CASE Dial \/ Refused \/ StreamEnded \/ Break
  BY <1>6 DEF Dial, Refused, StreamEnded, Break, LoopSide, mainVars
<1>7. CASE UNCHANGED failoverVars
  BY <1>7 DEF failoverVars, mainVars, LoopSide
<1> QED BY <1>1, <1>2, <1>3, <1>4, <1>5, <1>6, <1>7 DEF FailoverNext

LEMMA TermsWonInductive ==
    ASSUME LoopTypeOK, newest \in 0..MaxTerm, TermsWon, LoopSide
    PROVE  LoopTypeOK' /\ newest' \in 0..MaxTerm /\ TermsWon'
<1>0. /\ MaxTerm \in Nat /\ newest \in Nat
      /\ won \in [Node -> Nat] /\ term \in [Node -> Nat]
      /\ LeadsWhileHolding
      /\ \A n \in Node : won[n] <= newest /\ term[n] <= newest
      /\ \A n \in Node : Reigns(n) => Reign(n) > 0 /\ Reign(n) <= newest
      /\ \A n \in Node : Reign(n) \in Nat
      /\ \A n, m \in Node : Reigns(n) /\ Reigns(m) /\ n # m => Reign(n) # Reign(m)
  BY FailoverAssumption DEF LoopTypeOK, TermsWon, ReignsDistinct, Reign
<1>1. ASSUME newest' = newest, LoopTypeOK', LeadsWhileHolding', ReignsKept,
             \A n \in Node : /\ won'[n] \in {won[n]}
                             /\ term'[n] \in {term[n], won[n]}
      PROVE  LoopTypeOK' /\ newest' \in 0..MaxTerm /\ TermsWon'
  BY <1>0, <1>1 DEF TermsWon, ReignsDistinct, ReignsKept
<1>2. CASE UNCHANGED loopVars /\ newest' = newest
  BY <1>0, <1>1, <1>2, LoopUnchanged DEF loopVars
<1>3. ASSUME NEW n \in Node, LoopMoves(n), newest' = newest
      PROVE  LoopTypeOK' /\ newest' \in 0..MaxTerm /\ TermsWon'
  <2>1. \A m \in Node : won'[m] \in {won[m]} /\ term'[m] \in {term[m], won[m]}
    BY <1>0, <1>3
    DEF LoopMoves, CampaignEnded, HoldLost, ResignReturns, OwnStep, BecomeLead,
        HoldEnded, Demote, DemoteToResign, Shutdown, Crash
  <2> QED BY <1>0, <1>1, <1>3, <2>1, LoopMovesKeep
<1>4. ASSUME NEW n \in Node, newest < MaxTerm, newest' = newest + 1,
             CampaignReturns(n, newest')
      PROVE  LoopTypeOK' /\ newest' \in 0..MaxTerm /\ TermsWon'
  <2>1. /\ LoopTypeOK' /\ LeadsWhileHolding' /\ Reign(n)' = newest + 1
        /\ \A m \in Node \ {n} : Reigns(m)' = Reigns(m) /\ Reign(m)' = Reign(m)
    BY <1>0, <1>4, LoopWins
  <2>2. \A m \in Node : won'[m] <= newest + 1 /\ term'[m] <= newest + 1
    BY <1>0, <1>4 DEF CampaignReturns
  <2>3. ReignsDistinct'
    BY <1>0, <2>1 DEF ReignsDistinct
  <2>4. \A m \in Node : Reigns(m)' => Reign(m)' > 0
    BY <1>0, <2>1
  <2> QED BY <1>0, <1>4, <2>1, <2>2, <2>3, <2>4 DEF TermsWon
<1> QED BY <1>2, <1>3, <1>4 DEF LoopSide

LEMMA HandlersTyped ==
    ASSUME FailoverInv, [FailoverNext]_failoverVars
    PROVE  /\ main' \in [Node -> MainState]
           /\ handler' \in [Stream -> Handler \cup {NoHandler}]
           /\ conn' \in Stream \cup {NoStream}
           /\ next' \in 1..Len(Servers)
<1> DEFINE Goal == /\ main' \in [Node -> MainState]
                   /\ handler' \in [Stream -> Handler \cup {NoHandler}]
                   /\ conn' \in Stream \cup {NoStream}
                   /\ next' \in 1..Len(Servers)
<1>0. /\ main \in [Node -> MainState]
      /\ handler \in [Stream -> Handler \cup {NoHandler}]
      /\ conn \in Stream \cup {NoStream} /\ next \in 1..Len(Servers)
      /\ newest \in 0..MaxTerm /\ MaxTerm \in Nat /\ term \in [Node -> Nat]
      /\ \A n \in Node : term[n] \in 0..MaxTerm
      /\ 0 \in 0..MaxTerm
      /\ \A s \in Stream : Running(s) => handler[s] \in Handler
  BY FailoverAssumption
  DEF FailoverInv, FailoverTypeOK, LoopTypeOK, TermsWon, Running
<1>1. ASSUME NEW s \in Stream, NEW h \in Handler \cup {NoHandler},
             handler' = [handler EXCEPT ![s] = h],
             UNCHANGED <<main, conn, next>>
      PROVE  Goal
  BY <1>0, <1>1
<1>2. ASSUME NEW s \in Stream, Running(s), NEW stage \in {"hello", "busy", "select"},
             NEW watch \in 0..MaxTerm, Moves(s, stage, watch)
      PROVE  Goal
  <2>1. [at |-> handler[s].at, stage |-> stage, watch |-> watch] \in Handler
    BY <1>0, <1>2 DEF Handler
  <2> QED BY <1>1, <1>2, <2>1 DEF Moves, mainVars, workerVars
<1>3. ASSUME NEW s \in Stream, Returns(s)
      PROVE  Goal
  BY <1>1, <1>3 DEF Returns, mainVars, workerVars
<1>4. ASSUME NEW s \in Stream, Greet(s) \/ Take(s) \/ Leave(s)
      PROVE  Goal
  BY <1>0, <1>2, <1>3, <1>4 DEF Greet, Take, Leave
<1>5. ASSUME NEW s \in Stream, EnterSelect(s)
      PROVE  Goal
  <2> DEFINE n == handler[s].at
             watch == IF isLead[n] THEN term[n] ELSE 0
  <2>1. Running(s) /\ Moves(s, "select", watch)
    BY <1>5 DEF EnterSelect
  <2>2. n \in Node
    BY <1>0, <2>1 DEF Handler
  <2>3. watch \in 0..MaxTerm
    BY <1>0, <2>2
  <2> HIDE DEF watch
  <2> QED BY <1>2, <2>1, <2>3
<1>6. ASSUME NEW n \in Node, Elected(n) \/ LoopOnly(n) \/ Told(n)
      PROVE  Goal
  BY <1>0, <1>6 DEF Elected, LoopOnly, Told, mainVars, workerVars
<1>7. ASSUME NEW n \in Node, SignalSeen(n) \/ Drained(n) \/ Forced(n)
      PROVE  Goal
  BY <1>0, <1>7 DEF SignalSeen, Drained, Forced, workerVars, MainState
<1>8. ASSUME NEW n \in Node, Exit(n) \/ Dies(n)
      PROVE  Goal
  BY <1>0, <1>8 DEF Exit, Dies, ProcessEnds, workerVars, MainState
<1>9. CASE Dial
  <2>1. conn' \in Stream
    BY <1>9 DEF Dial
  <2>2. [at |-> Current, stage |-> "hello", watch |-> 0] \in Handler
    BY <1>0, PlaceInList DEF Handler, Current
  <2>3. handler' \in [Stream -> Handler \cup {NoHandler}]
    BY <1>0, <1>9, <2>1, <2>2 DEF Dial
  <2> QED BY <1>0, <1>9, <2>1, <2>3 DEF Dial, mainVars
<1>10. CASE Refused \/ StreamEnded \/ Break
  <2>1. next' \in 1..Len(Servers)
    BY <1>0, <1>10, PlaceInList DEF Refused, StreamEnded, Break, TryNext
  <2> QED BY <1>0, <1>10, <2>1 DEF Refused, StreamEnded, Break, mainVars
<1>11. CASE UNCHANGED failoverVars
  BY <1>0, <1>11 DEF failoverVars, mainVars, workerVars
<1> QED
  BY <1>4, <1>5, <1>6, <1>7, <1>8, <1>9, <1>10, <1>11 DEF FailoverNext

LEMMA FailoverInductive ==
    ASSUME FailoverInv, [FailoverNext]_failoverVars
    PROVE  FailoverInv'
<1>1. LoopTypeOK' /\ newest' \in 0..MaxTerm /\ TermsWon'
  BY LoopSideStep, TermsWonInductive DEF FailoverInv, FailoverTypeOK
<1> QED BY <1>1, HandlersTyped DEF FailoverInv, FailoverTypeOK

LEMMA FailoverStarts ==
    ASSUME FailoverInit
    PROVE  FailoverInv
<1>1. LoopTypeOK /\ LeadsWhileHolding /\ \A n \in Node : ~Reigns(n)
  BY LoopStarts DEF FailoverInit
<1>2. Len(Servers) \in Nat /\ Len(Servers) > 0 /\ MaxTerm \in Nat
  BY FailoverAssumption
<1>3. TermsWon
  BY <1>1 DEF TermsWon, ReignsDistinct, FailoverInit, LoopInit
<1>4. FailoverTypeOK
  BY <1>1, <1>2 DEF FailoverInit, FailoverTypeOK, MainState
<1> QED BY <1>3, <1>4 DEF FailoverInv

LEMMA FailoverInvariant == FailoverSpec => []FailoverInv
<1>1. FailoverInit => FailoverInv
  BY FailoverStarts
<1>2. FailoverInv /\ [FailoverNext]_failoverVars => FailoverInv'
  BY FailoverInductive
<1> QED BY <1>1, <1>2, PTL DEF FailoverSpec

(* Through signals, deaths, broken connections and elections, a handler    *)
(* only ever watches a reign that was won, at a server of the cluster, and *)
(* the worker's place wraps within its list of servers.                    *)
THEOREM FailoverTypeCorrect == FailoverSpec => []FailoverTypeOK
<1>1. FailoverInv => FailoverTypeOK
  BY DEF FailoverInv
<1> QED BY <1>1, FailoverInvariant, PTL
-----------------------------------------------------------------------------
(***************************************************************************)
(* The election that failover is modelled on, with a fresh term per win    *)
(* and a loss at any time, is one module Election allows: what TLC shows   *)
(* of shutdown and failover, it shows on top of the promise both real      *)
(* mechanisms were proved to keep.                                         *)
(***************************************************************************)
Promise == INSTANCE Election
              WITH reign <- newest, spent <- 1..newest, believes <- Belief

(* The terms failover runs under are won once each and only move up, and   *)
(* nobody believes in one that was not won.                                *)
THEOREM FailoverKeepsPromise == FailoverSpec => Promise!ElectionSpec
<1>1. FailoverInit => Promise!ElectionInit
  <2> SUFFICES ASSUME FailoverInit
               PROVE  Promise!ElectionInit
    OBVIOUS
  <2>1. newest = 0 /\ 1..newest = {}
    BY DEF FailoverInit
  <2>2. Belief = [n \in Node |-> 0]
    BY LoopStarts DEF FailoverInit
  <2> QED BY <2>1, <2>2 DEF Promise!ElectionInit
<1>2. ASSUME FailoverInv, [FailoverNext]_failoverVars
      PROVE  Promise!ElectionNext
  <2>0. newest \in Nat /\ LoopTypeOK /\ LeadsWhileHolding
    BY <1>2, FailoverAssumption DEF FailoverInv, FailoverTypeOK, TermsWon
  <2>1. ASSUME newest' = newest, ReignsKept
        PROVE  Promise!MoveOn
    <3> DEFINE S == {m \in Node : ~Reigns(m)'}
    <3>1. Belief' = [m \in Node |-> IF m \in S THEN 0 ELSE Belief[m]]
      BY <2>1 DEF ReignsKept, Belief
    <3>2. \E T \in SUBSET Node :
             Belief' = [m \in Node |-> IF m \in T THEN 0 ELSE Belief[m]]
      <4> WITNESS S \in SUBSET Node
      <4> QED BY <3>1
    <3> QED BY <2>0, <2>1, <3>2 DEF Promise!MoveOn
  <2>2. ASSUME NEW n \in Node, newest' = newest + 1, CampaignReturns(n, newest')
        PROVE  Promise!Win(n)
    <3>1. /\ ~Reigns(n) /\ Reigns(n)' /\ Reign(n)' = newest'
          /\ \A m \in Node \ {n} : Reigns(m)' = Reigns(m) /\ Reign(m)' = Reign(m)
      BY <2>0, <2>2, LoopWins
    <3>2. Belief[n] = 0 /\ Belief' = [Belief EXCEPT ![n] = newest']
      BY <3>1 DEF Belief
    <3>3. /\ newest' \in 1..newest' /\ newest' \notin 1..newest
          /\ newest <= newest' /\ 1..newest \subseteq 1..newest'
      BY <2>0, <2>2
    <3> QED BY <3>2, <3>3 DEF Promise!Win
  <2>3. LoopSide
    BY <1>2, LoopSideStep
  <2> QED
    BY <2>0, <2>1, <2>2, <2>3, LoopUnchanged, LoopMovesKeep
    DEF LoopSide, Promise!ElectionNext
<1> QED
  BY <1>1, <1>2, FailoverInvariant, PTL DEF FailoverSpec, Promise!ElectionSpec
=============================================================================
