------------------------------ MODULE LeadLoop ------------------------------
(***************************************************************************)
(* The loop every server process runs on whichever Election it was given:  *)
(* Leadership.Run of internal/server/leadership.go.  The modules           *)
(* Leadership (a leased row in Postgres) and EtcdElection (a leased key in *)
(* etcd) say when Campaign wins and Hold loses; Failover puts the worker   *)
(* streams and the process's main on top.                                  *)
(*                                                                         *)
(* A node is one run of a server process (newNodeID draws a fresh id at    *)
(* startup), so a restart is another member of Node that campaigns later.  *)
(* A node may stall between any two of its steps for longer than any       *)
(* lease.                                                                  *)
(***************************************************************************)
EXTENDS Naturals

CONSTANT Node   \* server processes

VARIABLES
    ctx,        \* ctx[n]: the process's context is live (no signal yet)
    loop,       \* loop[n]: where Leadership.Run of node n stands
    won,        \* won[n]: the term Campaign returned to Run
    isLead,     \* isLead[n]: l.isLead; the reign's LeadCtx is live with it
    term        \* term[n]: l.term

loopVars == <<ctx, loop, won, isLead, term>>

(* Run is in Campaign, between its return and becomeLead, in Hold, between *)
(* Hold's word that leadership was lost and demote, in the deferred resign *)
(* before and after its demote, or over; a crashed process runs nothing.   *)
LoopState == {"campaign", "won", "hold", "deposed", "returning", "resigning",
              "stopped", "crashed"}
Down == {"stopped", "crashed"}

LoopTypeOK ==
    /\ ctx \in [Node -> BOOLEAN]
    /\ loop \in [Node -> LoopState]
    /\ won \in [Node -> Nat]
    /\ isLead \in [Node -> BOOLEAN]
    /\ term \in [Node -> Nat]

(* newLeadership starts idle, with a LeadCtx already cancelled.            *)
LoopInit ==
    /\ ctx = [n \in Node |-> TRUE]
    /\ loop = [n \in Node |-> "campaign"]
    /\ won = [n \in Node |-> 0]
    /\ isLead = [n \in Node |-> FALSE]
    /\ term = [n \in Node |-> 0]
-----------------------------------------------------------------------------
(* What the election answers: Campaign returns term t, Hold reports that   *)
(* leadership was lost, Resign returns.                                    *)
CampaignReturns(n, t) ==
    /\ loop[n] = "campaign"
    /\ won' = [won EXCEPT ![n] = t]
    /\ loop' = [loop EXCEPT ![n] = "won"]
    /\ UNCHANGED <<ctx, isLead, term>>

HoldLost(n) ==
    /\ loop[n] = "hold"
    /\ loop' = [loop EXCEPT ![n] = "deposed"]
    /\ UNCHANGED <<ctx, won, isLead, term>>

ResignReturns(n) ==
    /\ loop[n] = "resigning"
    /\ loop' = [loop EXCEPT ![n] = "stopped"]
    /\ UNCHANGED <<ctx, won, isLead, term>>

(* Campaign returns ctx.Err() and so does Run, through its deferred resign.*)
CampaignEnded(n) ==
    /\ loop[n] = "campaign"
    /\ ~ctx[n]
    /\ loop' = [loop EXCEPT ![n] = "returning"]
    /\ UNCHANGED <<ctx, won, isLead, term>>

HoldEnded(n) ==
    /\ loop[n] = "hold"
    /\ ~ctx[n]
    /\ loop' = [loop EXCEPT ![n] = "returning"]
    /\ UNCHANGED <<ctx, won, isLead, term>>

BecomeLead(n) ==
    /\ loop[n] = "won"
    /\ term' = [term EXCEPT ![n] = won[n]]
    /\ isLead' = [isLead EXCEPT ![n] = TRUE]
    /\ loop' = [loop EXCEPT ![n] = "hold"]
    /\ UNCHANGED <<ctx, won>>

(* Deposed: the reign's context is cancelled, the term is kept, and Run    *)
(* campaigns again unless the process is shutting down.                    *)
DemoteForgotten(n) ==  \* mutant
    /\ loop[n] = "deposed"
    /\ loop' = [loop EXCEPT ![n] = IF ctx[n] THEN "campaign" ELSE "returning"]
    /\ UNCHANGED <<ctx, won, isLead, term>>
Demote(n) ==
    /\ loop[n] = "deposed"
    /\ isLead' = [isLead EXCEPT ![n] = FALSE]
    /\ loop' = [loop EXCEPT ![n] = IF ctx[n] THEN "campaign" ELSE "returning"]
    /\ UNCHANGED <<ctx, won, term>>

(* resign: demote first; only a node that still led goes on to hand over.  *)
ResignUndemoted(n) ==  \* mutant
    /\ loop[n] = "returning"
    /\ loop' = [loop EXCEPT ![n] = IF isLead[n] THEN "resigning" ELSE "stopped"]
    /\ UNCHANGED <<ctx, won, isLead, term>>
DemoteToResign(n) ==
    /\ loop[n] = "returning"
    /\ isLead' = [isLead EXCEPT ![n] = FALSE]
    /\ loop' = [loop EXCEPT ![n] = IF isLead[n] THEN "resigning" ELSE "stopped"]
    /\ UNCHANGED <<ctx, won, term>>

(* The steps after the election has answered.                              *)
OwnStep(n) == BecomeLead(n) \/ HoldEnded(n) \/ Demote(n) \/ DemoteToResign(n)

(* The environment: a signal, and a process that dies.                     *)
Shutdown(n) ==
    /\ ctx[n]
    /\ loop[n] \notin Down
    /\ ctx' = [ctx EXCEPT ![n] = FALSE]
    /\ UNCHANGED <<loop, won, isLead, term>>

Crash(n) ==
    /\ loop[n] \notin Down
    /\ loop' = [loop EXCEPT ![n] = "crashed"]
    /\ isLead' = [isLead EXCEPT ![n] = FALSE]
    /\ UNCHANGED <<ctx, won, term>>
-----------------------------------------------------------------------------
(* The term a node holds as its own: the one it leads under, or the one    *)
(* Campaign has returned and becomeLead not yet installed.                 *)
Reigns(n) == isLead[n] \/ loop[n] = "won"
Reign(n) == IF loop[n] = "won" THEN won[n] ELSE term[n]
Belief == [n \in Node |-> IF Reigns(n) THEN Reign(n) ELSE 0]

(* Two nodes may believe at once that they lead, but never under the same  *)
(* term, so the fencing token tells their claims and sweeps apart.         *)
OneLeaderPerTerm ==
    \A n, m \in Node : isLead[n] /\ isLead[m] /\ n # m => term[n] # term[m]

(* A node leads exactly from becomeLead to demote.                         *)
LeadsWhileHolding ==
    \A n \in Node : /\ isLead[n] => loop[n] \in {"hold", "deposed", "returning"}
                    /\ loop[n] \in {"hold", "deposed"} => isLead[n]
ReignsDistinct ==
    \A n, m \in Node : Reigns(n) /\ Reigns(m) /\ n # m => Reign(n) # Reign(m)
=============================================================================
