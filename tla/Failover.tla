------------------------------ MODULE Failover ------------------------------
(***************************************************************************)
(* How a worker follows leadership from server to server, and how a server *)
(* process shuts down: main of cmd/distq and gracefulStop, the handler of  *)
(* internal/server/stream.go, and the reconnecting loop of cmd/worker, on  *)
(* top of the loop of module LeadLoop and any election that keeps the      *)
(* promise of module Election.                                             *)
(*                                                                         *)
(* One worker is modelled: workers meet only in the dispatcher, which is   *)
(* module Dispatch's.  A stream is one JobStream call.  The handler of a   *)
(* stream the worker has given up may go on at the server for a while,     *)
(* next to the handler of the worker's next stream.                        *)
(***************************************************************************)
EXTENDS LeadLoop, Sequences

CONSTANTS
    Servers,    \* config.ServerAddrs: the servers the worker goes through
    Stream,     \* bound: streams whose handlers may overlap
    NoStream,   \* the worker has no stream open
    NoHandler,  \* no handler runs for a stream
    MaxTerm     \* bound: elections

ASSUME FailoverAssumption ==
    /\ Servers \in Seq(Node) /\ Servers # << >>
    /\ NoStream \notin Stream
    /\ MaxTerm \in Nat

VARIABLES
    newest,     \* terms won so far
    main,       \* main[n]: where the process's main stands
    handler,    \* handler[s]: the JobStream call serving stream s
    conn,       \* the worker's stream
    next        \* w.next: the place in Servers the worker tries, or is at

mainVars == <<newest, main>>
workerVars == <<conn, next>>
failoverVars == <<loopVars, mainVars, handler, workerVars>>

(* The select of run, gracefulStop, the wait for the leadership handover,  *)
(* and the end of the process.                                             *)
MainState == {"serving", "draining", "waiting", "exited"}

(* A handler runs at a server.  It waits for the greeting, is outside the  *)
(* select (registering, answering, sending), or in the select, waiting on  *)
(* the context of some reign.                                              *)
Handler == [at : Node, stage : {"hello", "busy", "select"}, watch : 0..MaxTerm]
Running(s) == handler[s] # NoHandler
Admitted(s) == Running(s) /\ handler[s].stage # "hello"

FailoverTypeOK ==
    /\ LoopTypeOK
    /\ newest \in 0..MaxTerm
    /\ main \in [Node -> MainState]
    /\ handler \in [Stream -> Handler \cup {NoHandler}]
    /\ conn \in Stream \cup {NoStream}
    /\ next \in 1..Len(Servers)

FailoverInit ==
    /\ LoopInit
    /\ newest = 0
    /\ main = [n \in Node |-> "serving"]
    /\ handler = [s \in Stream |-> NoHandler]
    /\ conn = NoStream
    /\ next = 1
-----------------------------------------------------------------------------
(* The election, by its promise: a fresh term at each win, and a loss at   *)
(* any time.                                                               *)
Elected(n) ==
    /\ newest < MaxTerm
    /\ newest' = newest + 1
    /\ CampaignReturns(n, newest')
    /\ UNCHANGED <<main, handler, workerVars>>

LoopOnly(n) ==
    /\ CampaignEnded(n) \/ OwnStep(n) \/ ResignReturns(n)
    /\ UNCHANGED <<mainVars, handler, workerVars>>

(* Loses or is signalled: what the environment does to a process.          *)
Told(n) ==
    /\ HoldLost(n) \/ Shutdown(n)
    /\ UNCHANGED <<mainVars, handler, workerVars>>
-----------------------------------------------------------------------------
(* run: the signal, gracefulStop, the handover, the end.                   *)
SignalSeen(n) ==
    /\ main[n] = "serving"
    /\ ~ctx[n]
    /\ main' = [main EXCEPT ![n] = "draining"]
    /\ UNCHANGED <<loopVars, newest, handler, workerVars>>

(* GracefulStop returns when the last handler has.                         *)
Drained(n) ==
    /\ main[n] = "draining"
    /\ \A s \in Stream : Running(s) => handler[s].at # n
    /\ main' = [main EXCEPT ![n] = "waiting"]
    /\ UNCHANGED <<loopVars, newest, handler, workerVars>>

(* shutdownGrace is over: Stop closes the connections under the handlers.  *)
Forced(n) ==
    /\ main[n] = "draining"
    /\ main' = [main EXCEPT ![n] = "waiting"]
    /\ UNCHANGED <<loopVars, newest, handler, workerVars>>

(* The end of the process, and of what is left of its handlers.            *)
ProcessEnds(n) ==
    /\ main' = [main EXCEPT ![n] = "exited"]
    /\ handler' = [s \in Stream |-> IF Running(s) /\ handler[s].at = n
                                    THEN NoHandler ELSE handler[s]]
    /\ UNCHANGED <<newest, workerVars>>

(* <-Stopped(): the loop has handed leadership over.                       *)
Exit(n) ==
    /\ main[n] = "waiting"
    /\ loop[n] = "stopped"
    /\ ProcessEnds(n)
    /\ UNCHANGED loopVars

(* The process dies, or Serve fails and run returns without a handover.    *)
Dies(n) ==
    /\ main[n] # "exited"
    /\ Crash(n) \/ (loop[n] = "stopped" /\ UNCHANGED loopVars)
    /\ ProcessEnds(n)
-----------------------------------------------------------------------------
(* JobStream.                                                              *)
Moves(s, stage, watch) ==
    /\ handler' = [handler EXCEPT ![s] =
                      [at |-> handler[s].at, stage |-> stage, watch |-> watch]]
    /\ UNCHANGED <<loopVars, mainVars, workerVars>>

Returns(s) ==
    /\ handler' = [handler EXCEPT ![s] = NoHandler]
    /\ UNCHANGED <<loopVars, mainVars, workerVars>>

(* The Hello is read; only the leader admits.                              *)
Greet(s) ==
    /\ Running(s) /\ handler[s].stage = "hello"
    /\ IF isLead[handler[s].at] THEN Moves(s, "busy", 0) ELSE Returns(s)

(* Round the loop into the select, which waits on the context LeadCtx      *)
(* gives at that moment; out of a reign it is one already cancelled.       *)
EnterSelect(s) ==
    /\ Running(s) /\ handler[s].stage = "busy"
    /\ LET n == handler[s].at
       IN  Moves(s, "select", IF isLead[n] THEN term[n] ELSE 0)

(* A delivery or a message is taken.                                       *)
Take(s) ==
    /\ Running(s) /\ handler[s].stage = "select"
    /\ Moves(s, "busy", 0)

(* case <-s.lead.LeadCtx().Done().                                         *)
ReignNeverOver(s) == FALSE  \* mutant
ReignIsOver(s) ==
    /\ handler[s].stage = "select"
    /\ LET n == handler[s].at IN ~isLead[n] \/ term[n] # handler[s].watch

(* The connection is gone, by the worker's doing or by a forced stop.      *)
Cut(s) == conn # s \/ main[handler[s].at] = "waiting"

Leave(s) ==
    /\ Running(s)
    /\ ReignIsOver(s) \/ Cut(s)
    /\ Returns(s)
-----------------------------------------------------------------------------
(* The worker's loop: run, and on an error the following server.           *)
Current == Servers[next]

NextUnwrapped == next' = next + 1  \* mutant
NextStays == UNCHANGED next        \* mutant
TryNext == next' = (next % Len(Servers)) + 1

Dial ==
    /\ conn = NoStream
    /\ main[Current] = "serving"
    /\ \E s \in Stream : ~Running(s)
    /\ conn' = CHOOSE s \in Stream : ~Running(s)
    /\ handler' = [handler EXCEPT ![conn'] =
                      [at |-> Current, stage |-> "hello", watch |-> 0]]
    /\ UNCHANGED <<loopVars, mainVars, next>>

Refused ==
    /\ conn = NoStream
    /\ main[Current] # "serving"
    /\ TryNext
    /\ UNCHANGED <<loopVars, mainVars, handler, conn>>

(* The server ended the stream, or stopped under it.                       *)
StreamEnded ==
    /\ conn # NoStream
    /\ ~Running(conn) \/ main[Current] = "waiting"
    /\ conn' = NoStream
    /\ TryNext
    /\ UNCHANGED <<loopVars, mainVars, handler>>

(* The connection is lost while both ends are up.                          *)
Break ==
    /\ conn # NoStream
    /\ conn' = NoStream
    /\ TryNext
    /\ UNCHANGED <<loopVars, mainVars, handler>>
-----------------------------------------------------------------------------
FailoverNext ==
    \/ \E n \in Node : \/ Elected(n) \/ LoopOnly(n) \/ Told(n) \/ Dies(n)
                       \/ SignalSeen(n) \/ Drained(n) \/ Forced(n) \/ Exit(n)
    \/ \E s \in Stream : \/ Greet(s) \/ EnterSelect(s) \/ Take(s) \/ Leave(s)
    \/ Dial \/ Refused \/ StreamEnded \/ Break

(* Every process and the worker get on with their own code.  A select      *)
(* whose reign is over, or whose connection is cut, takes that case in the *)
(* end even if messages keep coming: Go chooses at random among the cases  *)
(* that are ready.  Nothing is assumed of elections, losses, signals,      *)
(* deaths and broken connections, nor that the forced stop ever comes.     *)
FailoverFairness ==
    /\ \A n \in Node :
          WF_failoverVars(LoopOnly(n) \/ SignalSeen(n) \/ Drained(n) \/ Exit(n))
    /\ \A s \in Stream : /\ WF_failoverVars(Greet(s) \/ EnterSelect(s))
                         /\ SF_failoverVars(Leave(s))
    /\ WF_failoverVars(Dial \/ Refused \/ StreamEnded)

FailoverSpec ==
    FailoverInit /\ [][FailoverNext]_failoverVars /\ FailoverFairness
-----------------------------------------------------------------------------
(* Properties.                                                             *)

(* A signalled process ends, and without the forced stop: main waits for   *)
(* the handlers, the handlers for the reign's context, and the loop, which *)
(* cancels it before it hands over, waits for neither.                     *)
ShutdownCompletes == \A n \in Node : ~ctx[n] ~> main[n] = "exited"

(* A deposed server does not keep the workers it admitted: its streams     *)
(* end, unless it is elected again first.                                  *)
DeposedServesNobody ==
    \A n \in Node :
       ~isLead[n] ~>
          isLead[n] \/ \A s \in Stream : Admitted(s) => handler[s].at # n

(* Once leadership settles on one serving server, and connections hold,    *)
(* the worker ends up there and stays, wherever it was and whoever refused *)
(* it meanwhile.                                                           *)
Settled(n) ==
    /\ isLead[n] /\ main[n] = "serving"
    /\ \A m \in Node \ {n} : ~isLead[m]
ServedBy(n) == conn # NoStream /\ Current = n /\ Admitted(conn)
WorkerFindsLeader ==
    \A n \in Node :
       <>[]Settled(n) /\ <>[][~Break]_failoverVars => <>[]ServedBy(n)
=============================================================================
