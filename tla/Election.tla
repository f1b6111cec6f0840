------------------------------ MODULE Election ------------------------------
(***************************************************************************)
(* What the leadership loop may rely on, whichever mechanism elects: the   *)
(* interface Election of internal/server/election.go.  A reign has a term  *)
(* of its own: no term is ever won twice, not even after the reign it was  *)
(* won for is over.  Who leads is decided in the order of the terms: the   *)
(* mechanism stands by a reign that only moves up, and nobody believes in  *)
(* one beyond it.  A node may learn late of a win, when its reign is       *)
(* already behind; that it is behind is what fences it.                    *)
(***************************************************************************)
EXTENDS Naturals

CONSTANT Node

VARIABLES
    reign,      \* the newest reign the mechanism stands by
    spent,      \* the terms that have been won, or never will be
    believes    \* believes[n]: the term node n leads under, or 0

electionVars == <<reign, spent, believes>>

ElectionInit ==
    /\ reign \in Nat
    /\ spent = {}
    /\ believes = [n \in Node |-> 0]

(* Campaign returns a term.                                                *)
Win(n) ==
    /\ believes[n] = 0
    /\ \E t \in 1..reign' : /\ t \notin spent
                            /\ t \in spent'
                            /\ believes' = [believes EXCEPT ![n] = t]
    /\ reign <= reign' /\ spent \subseteq spent'

(* Leadership moves on, and some stop believing: told by Hold, or          *)
(* shutting down, or dead.                                                 *)
MoveOn ==
    /\ \E S \in SUBSET Node :
          believes' = [n \in Node |-> IF n \in S THEN 0 ELSE believes[n]]
    /\ reign <= reign' /\ spent \subseteq spent'

ElectionNext == (\E n \in Node : Win(n)) \/ MoveOn

ElectionSpec == ElectionInit /\ [][ElectionNext]_electionVars
=============================================================================
