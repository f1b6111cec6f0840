------------------------------ MODULE Dispatch ------------------------------
(***************************************************************************)
(* How the leading server hands jobs to workers: the dispatcher            *)
(* (internal/server/dispatcher.go), the handler of each worker stream      *)
(* (stream.go), Enqueue (server.go), the reaper's sweep (leadership.go)    *)
(* and the worker process at the other end (cmd/worker/main.go), over the  *)
(* jobs table of JobStore.  The server leads throughout, in one reign.     *)
(*                                                                         *)
(* The goroutines interleave at the dispatcher's mutex, at every statement *)
(* and at every message.  A goroutine that blocks in the channel send of   *)
(* pushLocked keeps the mutex, as in the code.                             *)
(*                                                                         *)
(* LateBeats is TRUE of the worker as it is written: beatLease selects     *)
(* between its ticker and the end of the job's context and then waits for  *)
(* sendMu, so a beat whose ticker went off before work cancelled the       *)
(* context may go out after the report.  That is a race of the program's   *)
(* own, needing no fault of anybody.  FALSE is a worker whose work waits   *)
(* for beatLease to end; it shows which properties rest on that race.      *)
(*                                                                         *)
(* What the environment may do wrong is the constant Faults:               *)
(*   "stall"     a worker or the network may be silent past a lease;       *)
(*   "break"     streams may break;                                        *)
(*   "crash"     worker processes may die (a restart has another id);      *)
(*   "dberror"   a statement of the server may fail, or commit and have    *)
(*               its reply lost;                                           *)
(*   "follower"  jobs may be filed through a server that does not lead.    *)
(***************************************************************************)
EXTENDS JobStore, Sequences, FiniteSets

CONSTANTS
    Stream,     \* streams that may be opened, one after another
    NoStream,
    LateBeats,  \* a last beat may follow its job's report
    Faults,     \* what the environment may do wrong
    MaxInTransit \* bound: messages on their way up, or down, one stream

ASSUME DispatchAssumption ==
    /\ {NoStream, "free", "timer", "enqueue", "dead"} \cap Stream = {}
    /\ NULL \notin [to : Stream, work : [job : Job, attempt : Nat]]
    /\ 1 \in Term
    /\ LateBeats \in BOOLEAN
    /\ Faults \subseteq {"stall", "break", "crash", "dberror", "follower"}
    /\ MaxInTransit \in Nat

VARIABLES
    pc,         \* pc[s]: where the JobStream handler of stream s stands
    of,         \* of[s]: the worker that opened stream s
    broken,     \* broken[s]: the connection under stream s is gone
    up, down,   \* messages on their way, per stream
    deliveries, \* deliveries[s]: the waiter's channel, capacity 1
    waiters,    \* d.waiters: the line, as the streams of its waiters
    mu,         \* d.mu: the goroutine inside pushLocked, or "free"
    sending,    \* the delivery a blocked send in pushLocked holds, if any
    timer,      \* d.timer: ticks until it fires, or NULL
    firing,     \* the timer fired and its Push waits for d.mu
    enqueued,   \* Enqueue has stored a job and its Push waits for d.mu
    conn,       \* conn[w]: the stream worker w reads and writes, or "dead"
    slot,       \* slot[w]: the job and attempt in w's read loop, or NULL
    handlers    \* handlers[w]: w's job goroutines

lineVars == <<waiters, mu, sending, timer, firing, enqueued>>
streamVars == <<pc, of, broken, up, down, deliveries>>
workerVars == <<conn, slot, handlers>>
dispatchVars == <<storeVars, lineVars, streamVars, workerVars>>

(* The term of the one reign.                                              *)
Reign1 == 1

Work == [job : Job, attempt : Nat]
Handler == [job : Job, attempt : Nat, live : BOOLEAN, beating : BOOLEAN]
Goroutine == Stream \cup {"timer", "enqueue"}

DispatchInit ==
    /\ StoreInit
    /\ pc = [s \in Stream |-> "unused"]
    /\ of = [s \in Stream |-> NoWorker]
    /\ broken = [s \in Stream |-> FALSE]
    /\ up = [s \in Stream |-> <<>>]
    /\ down = [s \in Stream |-> <<>>]
    /\ deliveries = [s \in Stream |-> <<>>]
    /\ waiters = <<>>
    /\ mu = "free"
    /\ sending = NULL
    /\ timer = NULL
    /\ firing = FALSE
    /\ enqueued = FALSE
    /\ conn = [w \in Worker |-> NoStream]
    /\ slot = [w \in Worker |-> NULL]
    /\ handlers = [w \in Worker |-> {}]
-----------------------------------------------------------------------------
(* The dispatcher.                                                         *)

(* register holds the mutex.  A worker already in line is not added again; *)
(* a new waiter starts a pass.                                             *)
InLine(w) == \E i \in 1..Len(waiters) : of[waiters[i]] = w

RegisterTwice(s) ==  \* mutant
    /\ pc[s] = "register" /\ mu = "free"
    /\ waiters' = Append(waiters, s)
    /\ mu' = s
    /\ UNCHANGED <<pc, of, broken, up, down, deliveries, sending, timer, firing,
                   enqueued, storeVars, workerVars>>
Register(s) ==
    /\ pc[s] = "register" /\ mu = "free"
    /\ \/ /\ InLine(of[s])
          /\ pc' = [pc EXCEPT ![s] = "select"]
          /\ UNCHANGED <<waiters, mu>>
       \/ /\ ~InLine(of[s])
          /\ waiters' = Append(waiters, s)
          /\ mu' = s
          /\ UNCHANGED pc
    /\ UNCHANGED <<of, broken, up, down, deliveries, sending, timer, firing,
                   enqueued, storeVars, workerVars>>

(* forget, deferred by the handler: it drops the first waiter of this      *)
(* WORKER, if it has one, whichever stream that waiter belongs to.         *)
Forget(s) ==
    /\ pc[s] = "forget" /\ mu = "free"
    /\ \/ ~InLine(of[s]) /\ UNCHANGED waiters
       \/ \E i \in 1..Len(waiters) :
             /\ of[waiters[i]] = of[s]
             /\ \A k \in 1..(i - 1) : of[waiters[k]] # of[s]
             /\ waiters' = SubSeq(waiters, 1, i - 1)
                             \o SubSeq(waiters, i + 1, Len(waiters))
    /\ pc' = [pc EXCEPT ![s] = "gone"]
    /\ UNCHANGED <<mu, sending, timer, firing, enqueued, of, broken, up, down,
                   deliveries, storeVars, workerVars>>

(* Push, called by Enqueue and by the timer's goroutine, takes the mutex.  *)
Push(g) ==
    /\ mu = "free"
    /\ \/ g = "enqueue" /\ enqueued
       \/ g = "timer" /\ firing
    /\ mu' = g
    /\ UNCHANGED <<waiters, sending, timer, firing, enqueued, streamVars,
                   storeVars, workerVars>>

(* pushLocked: claim a visible job for the head of the line, take the      *)
(* waiter off the line, then send; the send blocks while the channel is    *)
(* full.                                                                   *)
PushClaimKeepsWaiter(j) ==  \* mutant
    /\ mu # "free" /\ sending = NULL
    /\ waiters # <<>>
    /\ LET s == Head(waiters)
           d == [job |-> j, attempt |-> jobs[j].retry_count + 1]
       IN  /\ DequeueJob(Reign1, of[s], j)
           /\ IF deliveries[s] = <<>>
              THEN /\ deliveries' = [deliveries EXCEPT ![s] = <<d>>]
                   /\ UNCHANGED sending
              ELSE /\ sending' = [to |-> s, work |-> d]
                   /\ UNCHANGED deliveries
    /\ UNCHANGED <<waiters, mu, timer, firing, enqueued, pc, of, broken, up, down,
                   workerVars>>
PushClaim(j) ==
    /\ mu # "free" /\ sending = NULL
    /\ waiters # <<>>
    /\ LET s == Head(waiters)
           d == [job |-> j, attempt |-> jobs[j].retry_count + 1]
       IN  /\ DequeueJob(Reign1, of[s], j)
           /\ IF deliveries[s] = <<>>
              THEN /\ deliveries' = [deliveries EXCEPT ![s] = <<d>>]
                   /\ UNCHANGED sending
              ELSE /\ sending' = [to |-> s, work |-> d]
                   /\ UNCHANGED deliveries
    /\ waiters' = Tail(waiters)
    /\ UNCHANGED <<mu, timer, firing, enqueued, pc, of, broken, up, down, workerVars>>

(* The goroutine that entered pushLocked leaves it.                        *)
Unlock ==
    /\ mu' = "free"
    /\ enqueued' = (enqueued /\ mu # "enqueue")
    /\ firing' = (firing /\ mu # "timer")
    /\ pc' = [s \in Stream |-> IF mu = s THEN "select" ELSE pc[s]]

(* armLocked: with somebody in line and something pending, a push when the *)
(* earliest job comes due (minArm is less than a tick).                    *)
Pending == {j \in Job : jobs[j].state = "pending"}
EarliestRun == CHOOSE t \in {jobs[j].next_run_at : j \in Pending} :
                  \A j \in Pending : t <= jobs[j].next_run_at
ArmNever == UNCHANGED timer  \* mutant
Arm ==
    IF waiters # <<>> /\ Pending # {}
    THEN timer' = Greatest(EarliestRun, 0)
    ELSE UNCHANGED timer

PushDone ==
    /\ mu # "free" /\ sending = NULL
    /\ waiters = <<>> \/ \A j \in Job : ~Visible(j)
    /\ Arm
    /\ Unlock
    /\ UNCHANGED <<waiters, sending, of, broken, up, down, deliveries, storeVars,
                   workerVars>>

(* Dequeue or NextVisible fails: the pass ends with no timer armed and the *)
(* waiter still in line, even when the claim it made has committed.        *)
PushError ==
    /\ "dberror" \in Faults
    /\ mu # "free" /\ sending = NULL
    /\ waiters # <<>>
    /\ \/ UNCHANGED storeVars
       \/ \E j \in Job : DequeueJob(Reign1, of[Head(waiters)], j)
    /\ Unlock
    /\ UNCHANGED <<waiters, sending, timer, of, broken, up, down, deliveries,
                   workerVars>>

TimerFires ==
    /\ timer = 0 /\ ~firing
    /\ timer' = NULL
    /\ firing' = TRUE
    /\ UNCHANGED <<waiters, mu, sending, enqueued, streamVars, storeVars, workerVars>>
-----------------------------------------------------------------------------
(* Enqueue, the reaper and the clock.                                      *)

(* Enqueue stores the job and then pushes.  One producer: the next Enqueue *)
(* comes after the last one returned.                                      *)
Enqueue(j) ==
    /\ ~enqueued
    /\ \E status \in StatusIn, max \in MaxRetriesIn : CreateJob(j, status, max)
    /\ enqueued' = TRUE
    /\ UNCHANGED <<waiters, mu, sending, timer, firing, streamVars, workerVars>>

(* On a follower the Push finds that it does not lead and does nothing;    *)
(* there is none when the insert committed and its reply was lost.         *)
EnqueueUnpushed(j) ==
    /\ Faults \cap {"follower", "dberror"} # {}
    /\ \E status \in StatusIn, max \in MaxRetriesIn : CreateJob(j, status, max)
    /\ UNCHANGED <<lineVars, streamVars, workerVars>>

(* The sweep writes the table and nothing else.                            *)
Reap ==
    /\ Swept(Reign1) # {}
    /\ ReapExpiredLeases(Reign1)
    /\ UNCHANGED <<lineVars, streamVars, workerVars>>

(* Time passes; without stall, break, crash and error, beats and reports   *)
(* arrive before the lease they are for runs out.  A dispatcher blocked    *)
(* for good stops the clock there: the leases that lapse afterwards are    *)
(* left out, and nothing is claimed any more.                              *)
DispatchTick ==
    /\ \/ Faults \cap {"stall", "break", "crash", "dberror"} # {}
       \/ \A j \in Job : jobs[j].state = "processing" => jobs[j].lease_expires_at > 0
    /\ TickJobs
    /\ timer' = IF timer = NULL THEN NULL ELSE Countdown(timer, 0)
    /\ UNCHANGED <<waiters, mu, sending, firing, enqueued, streamVars, workerVars>>
-----------------------------------------------------------------------------
(* The stream handler on the server: the select loop of JobStream.         *)

(* What the handler sends down stream s; on a broken stream it is lost.    *)
SendDown(s, msgs) ==
    /\ broken[s] \/ Len(down[s]) + Len(msgs) <= MaxInTransit
    /\ down' = IF broken[s] THEN down ELSE [down EXCEPT ![s] = @ \o msgs]

(* case job := <-w.deliveries.  A send that waited for the channel goes    *)
(* through, and its pass goes on.                                          *)
Deliver(s) ==
    /\ pc[s] = "select"
    /\ deliveries[s] # <<>>
    /\ LET d == Head(deliveries[s])
       IN  SendDown(s, <<[type |-> "assigned", job |-> d.job, attempt |-> d.attempt]>>)
    /\ IF sending # NULL /\ sending.to = s
       THEN /\ deliveries' = [deliveries EXCEPT ![s] = <<sending.work>>]
            /\ sending' = NULL
       ELSE /\ deliveries' = [deliveries EXCEPT ![s] = <<>>]
            /\ UNCHANGED sending
    /\ UNCHANGED <<waiters, mu, timer, firing, enqueued, pc, of, broken, up,
                   storeVars, workerVars>>

(* What answer does to the table, given the message.                       *)
Applied(w, m) ==
    \/ m.type = "beat" /\ HeartbeatJob(w, m.job)
    \/ m.type = "completed" /\ Complete(w, m.job)
    \/ m.type = "failed" /\ FailJob(w, m.job)
Refused(w, m) ==
    /\ \/ ~Owns(w, m.job)
       \/ /\ m.type = "failed" /\ HasRetries(jobs[m.job])
          /\ Backoff(jobs[m.job]) > MaxInterval
    /\ UNCHANGED storeVars

(* case msg := <-incoming: answer, reply, and register again if the worker *)
(* is free.  Every report frees it, accepted or not, and so does a beat    *)
(* for a job that is no longer its own.  A reply that cannot be sent ends  *)
(* the handler.                                                            *)
Replied(s, reply, free) ==
    /\ SendDown(s, reply)
    /\ \/ pc' = [pc EXCEPT ![s] = IF free THEN "register" ELSE "select"]
       \/ broken[s] /\ reply # <<>> /\ pc' = [pc EXCEPT ![s] = "forget"]

BeatFrees(m, renewed) == m.type # "beat" \/ renewed  \* mutant
Frees(m, renewed) == m.type # "beat" \/ ~renewed

ReplySwapped(m, renewed) ==  \* mutant
    IF m.type = "beat"
    THEN IF ~renewed THEN <<>>
         ELSE <<[type |-> "lost", job |-> m.job, attempt |-> m.attempt]>>
    ELSE <<[type |-> "result", job |-> m.job, attempt |-> m.attempt]>>
Reply(m, renewed) ==
    IF m.type = "beat"
    THEN IF renewed THEN <<>>
         ELSE <<[type |-> "lost", job |-> m.job, attempt |-> m.attempt]>>
    ELSE <<[type |-> "result", job |-> m.job, attempt |-> m.attempt]>>

Answer(s) ==
    /\ pc[s] = "select"
    /\ up[s] # <<>>
    /\ LET m == Head(up[s])
       IN  \/ Applied(of[s], m) /\ Replied(s, Reply(m, TRUE), Frees(m, TRUE))
           \/ Refused(of[s], m) /\ Replied(s, Reply(m, FALSE), Frees(m, FALSE))
    /\ up' = [up EXCEPT ![s] = Tail(@)]
    /\ UNCHANGED <<lineVars, of, broken, deliveries, workerVars>>

(* The statement fails, as every one does once the stream's context has    *)
(* ended, whether or not it committed: a beat is dropped, a report is      *)
(* refused, and its worker counts as free.                                 *)
AnswerError(s) ==
    /\ "dberror" \in Faults \/ broken[s]
    /\ pc[s] = "select"
    /\ up[s] # <<>>
    /\ LET m == Head(up[s])
       IN  /\ IF m.type = "beat" THEN Replied(s, <<>>, FALSE)
                                 ELSE Replied(s, Reply(m, FALSE), TRUE)
           /\ UNCHANGED storeVars \/ Applied(of[s], m)
    /\ up' = [up EXCEPT ![s] = Tail(@)]
    /\ UNCHANGED <<lineVars, of, broken, deliveries, workerVars>>

(* case recvErr or ctx.Done: the handler returns through forget.           *)
HandlerEnds(s) ==
    /\ pc[s] = "select" /\ broken[s]
    /\ pc' = [pc EXCEPT ![s] = "forget"]
    /\ UNCHANGED <<lineVars, of, broken, up, down, deliveries, storeVars, workerVars>>

Break(s) ==
    /\ "break" \in Faults
    /\ pc[s] # "unused" /\ ~broken[s]
    /\ broken' = [broken EXCEPT ![s] = TRUE]
    /\ UNCHANGED <<lineVars, pc, of, up, down, deliveries, storeVars, workerVars>>
-----------------------------------------------------------------------------
(* The worker.                                                             *)

(* run: open a stream on which the handler greets and registers; the slot  *)
(* is local to run, so it starts empty, while the goroutines of jobs from  *)
(* earlier streams live on.                                                *)
Connect(w, s) ==
    /\ conn[w] = NoStream
    /\ pc[s] = "unused"
    /\ conn' = [conn EXCEPT ![w] = s]
    /\ slot' = [slot EXCEPT ![w] = NULL]
    /\ of' = [of EXCEPT ![s] = w]
    /\ pc' = [pc EXCEPT ![s] = "register"]
    /\ UNCHANGED <<lineVars, broken, up, down, deliveries, storeVars, handlers>>

(* run returns: the slot and what was still to be read go with it.         *)
Disconnected(w) ==
    /\ conn[w] \in Stream
    /\ broken[conn[w]]
    /\ conn' = [conn EXCEPT ![w] = NoStream]
    /\ slot' = [slot EXCEPT ![w] = NULL]
    /\ down' = [down EXCEPT ![conn[w]] = <<>>]
    /\ UNCHANGED <<lineVars, pc, of, broken, up, deliveries, storeVars, handlers>>

(* The process dies, or is told to stop: the context of its stream is the  *)
(* process's own.  A handler cancelled by it fails, and its report may     *)
(* still get out first, which is a Report before this.                     *)
WorkerCrash(w) ==
    /\ "crash" \in Faults
    /\ conn[w] \in Stream
    /\ conn' = [conn EXCEPT ![w] = "dead"]
    /\ broken' = [broken EXCEPT ![conn[w]] = TRUE]
    /\ slot' = [slot EXCEPT ![w] = NULL]
    /\ handlers' = [handlers EXCEPT ![w] = {}]
    /\ down' = [down EXCEPT ![conn[w]] = <<>>]
    /\ UNCHANGED <<lineVars, pc, of, up, deliveries, storeVars>>

Works(h) == [job |-> h.job, attempt |-> h.attempt]

(* What is left of a worker's goroutines when the context of h has been    *)
(* cancelled and its handler is over: a last beat, perhaps.                *)
Stopped(hs, h) ==
    {hs \ {h}} \cup
    (IF LateBeats /\ h.beating
     THEN {(hs \ {h}) \cup {[h EXCEPT !.live = FALSE]}}
     ELSE {})

(* The read loop.  Assigned starts a goroutine and takes the slot,         *)
(* whatever was in it; Lost cancels the goroutine in the slot, if it is    *)
(* for that job; a Result for the job in the slot clears it.               *)
Receive(w) ==
    /\ conn[w] \in Stream
    /\ down[conn[w]] # <<>>
    /\ LET m == Head(down[conn[w]])
           x == [job |-> m.job, attempt |-> m.attempt]
           mine == slot[w] # NULL /\ slot[w].job = m.job
       IN  \/ /\ m.type = "assigned"
              /\ slot' = [slot EXCEPT ![w] = x]
              /\ handlers' = [handlers EXCEPT ![w] =
                    @ \cup {[job |-> x.job, attempt |-> x.attempt,
                             live |-> TRUE, beating |-> TRUE]}]
           \/ /\ m.type = "lost"
              /\ slot' = [slot EXCEPT ![w] = IF mine THEN NULL ELSE @]
              /\ \/ \E h \in handlers[w] :
                       /\ mine /\ h.live /\ Works(h) = slot[w]
                       /\ \E hs \in Stopped(handlers[w], h) :
                             handlers' = [handlers EXCEPT ![w] = hs]
                 \/ /\ \A h \in handlers[w] : h.live /\ mine => Works(h) # slot[w]
                    /\ UNCHANGED handlers
           \/ /\ m.type = "result"
              /\ slot' = [slot EXCEPT ![w] = IF mine THEN NULL ELSE @]
              /\ UNCHANGED handlers
    /\ down' = [down EXCEPT ![conn[w]] = Tail(@)]
    /\ UNCHANGED <<lineVars, pc, of, broken, up, deliveries, storeVars, conn>>

(* send: on the worker's latest stream, whichever stream the job came on.  *)
(* Without one, or on a broken one, the message is lost.                   *)
CanSend(w) == conn[w] \in Stream /\ ~broken[conn[w]]
SendUp(w, type, h) ==
    IF CanSend(w)
    THEN /\ Len(up[conn[w]]) < MaxInTransit
         /\ up' = [up EXCEPT ![conn[w]] =
                     Append(@, [type |-> type, job |-> h.job, attempt |-> h.attempt])]
    ELSE UNCHANGED up

(* beatLease: a beat while the job runs; it stops when a send fails, and   *)
(* after the last beat of a job that is over.                              *)
Beat(w, h) ==
    /\ h.beating
    /\ SendUp(w, "beat", h)
    /\ handlers' = [handlers EXCEPT ![w] =
          (@ \ {h}) \cup (IF ~h.live THEN {}
                          ELSE {[h EXCEPT !.beating = CanSend(w)]})]
    /\ UNCHANGED <<lineVars, pc, of, broken, down, deliveries, storeVars, conn, slot>>

(* work: the handler returns, with or without an error, and reports.       *)
ReportOnAndOn(w, h, verdict) ==  \* mutant
    /\ h.live
    /\ SendUp(w, verdict, h)
    /\ UNCHANGED handlers
    /\ UNCHANGED <<lineVars, pc, of, broken, down, deliveries, storeVars, conn, slot>>
Report(w, h, verdict) ==
    /\ h.live
    /\ SendUp(w, verdict, h)
    /\ \E hs \in Stopped(handlers[w], h) : handlers' = [handlers EXCEPT ![w] = hs]
    /\ UNCHANGED <<lineVars, pc, of, broken, down, deliveries, storeVars, conn, slot>>
-----------------------------------------------------------------------------
ServerStep(s) ==
    \/ Register(s) \/ Forget(s) \/ Deliver(s) \/ Answer(s) \/ AnswerError(s)
    \/ HandlerEnds(s)
WorkerStep(w) ==
    \/ Receive(w)
    \/ \E h \in handlers[w] : Report(w, h, "completed")
    \/ \E h \in handlers[w] : Report(w, h, "failed")
    \/ \E h \in handlers[w] : Beat(w, h)

DispatchNext ==
    \/ \E s \in Stream : ServerStep(s)
    \/ \E s \in Stream : Break(s)
    \/ Push("enqueue") \/ Push("timer") \/ PushDone \/ PushError \/ TimerFires
    \/ \E j \in Job : PushClaim(j)
    \/ \E j \in Job : Enqueue(j)
    \/ \E j \in Job : EnqueueUnpushed(j)
    \/ Reap
    \/ DispatchTick
    \/ \E w \in Worker : WorkerStep(w)
    \/ \E w \in Worker : Disconnected(w)
    \/ \E w \in Worker : WorkerCrash(w)
    \/ \E w \in Worker, s \in Stream : Connect(w, s)

DispatchSpec == DispatchInit /\ [][DispatchNext]_dispatchVars

(* Goroutines run, a goroutine waiting for d.mu gets it (Go's mutex does   *)
(* not starve a waiter), the timer and the reaper's ticker go off, time    *)
(* passes, a worker connects, reads, and every handler ends and reports.   *)
(* Nothing is assumed of producers, breaks, crashes or errors.             *)
DispatchFairness ==
    /\ WF_dispatchVars(DispatchTick)
    /\ WF_dispatchVars(TimerFires)
    /\ WF_dispatchVars(Reap)
    /\ WF_dispatchVars(PushDone \/ \E j \in Job : PushClaim(j))
    /\ SF_dispatchVars(Push("enqueue"))
    /\ SF_dispatchVars(Push("timer"))
    /\ \A s \in Stream : /\ SF_dispatchVars(Register(s) \/ Forget(s))
                         /\ WF_dispatchVars(Deliver(s))
                         /\ WF_dispatchVars(Answer(s))
                         /\ WF_dispatchVars(HandlerEnds(s))
    /\ \A w \in Worker :
          /\ WF_dispatchVars(\E s \in Stream : Connect(w, s))
          /\ WF_dispatchVars(Receive(w))
          /\ WF_dispatchVars(Disconnected(w))
          /\ SF_dispatchVars(\E h \in handlers[w], v \in {"completed", "failed"} :
                                Report(w, h, v))

FairDispatchSpec == DispatchSpec /\ DispatchFairness
-----------------------------------------------------------------------------
(* Properties.                                                             *)

(* The types, with the capacity of a waiter's channel (JobStream makes it  *)
(* with room for one delivery) among them.                                 *)
DispatchTypeOK ==
    /\ StoreTypeOK
    /\ pc \in [Stream -> {"unused", "register", "select", "forget", "gone"}]
    /\ of \in [Stream -> Worker \cup {NoWorker}]
    /\ broken \in [Stream -> BOOLEAN]
    /\ \A s \in Stream : /\ deliveries[s] \in Seq(Work) /\ Len(deliveries[s]) <= 1
                         /\ Len(up[s]) <= MaxInTransit
                         /\ Len(down[s]) <= MaxInTransit
    /\ waiters \in Seq(Stream)
    /\ mu \in Goroutine \cup {"free"}
    /\ sending = NULL \/ sending \in [to : Stream, work : Work]
    /\ timer \in Nat \cup {NULL}
    /\ firing \in BOOLEAN /\ enqueued \in BOOLEAN
    /\ conn \in [Worker -> Stream \cup {NoStream, "dead"}]
    /\ \A w \in Worker : slot[w] = NULL \/ slot[w] \in Work
    /\ handlers \in [Worker -> SUBSET Handler]

(* The line holds each worker at most once, and only workers whose stream  *)
(* handler is still there to take a delivery, whatever breaks, stalls and  *)
(* re-registers.                                                           *)
LineIsSound ==
    /\ \A i, k \in 1..Len(waiters) : of[waiters[i]] = of[waiters[k]] => i = k
    /\ \A i \in 1..Len(waiters) : pc[waiters[i]] # "gone"

(* A worker in line owns no job: nobody is handed a second job while the   *)
(* first is still its own.                                                 *)
InLineOwnsNothing ==
    \A i \in 1..Len(waiters), j \in Job : ~Owns(of[waiters[i]], j)

(* pushLocked never blocks in its channel send, which it would do holding  *)
(* the dispatcher's mutex: "its delivery channel is empty and this send    *)
(* cannot block".                                                          *)
SendNeverBlocks == sending = NULL

(* A leased job is accounted for: while worker w owns it, the very attempt *)
(* is on its way to w (in the channel, or in a send that waits for it),    *)
(* being worked on by w, or reported and not answered.                     *)
Has(seq, types, x) == \E i \in 1..Len(seq) : /\ seq[i].type \in types
                                             /\ Works(seq[i]) = x
Current(j) == [job |-> j, attempt |-> jobs[j].retry_count + 1]
OwnedIsInFlight ==
    \A j \in Job, w \in Worker : Owns(w, j) =>
       \/ \E h \in handlers[w] : h.live /\ Works(h) = Current(j)
       \/ \E s \in Stream : of[s] = w /\
             \/ deliveries[s] = <<Current(j)>>
             \/ sending # NULL /\ sending.to = s /\ sending.work = Current(j)
             \/ Has(down[s], {"assigned"}, Current(j))
             \/ Has(up[s], {"completed", "failed"}, Current(j))

(* An attempt is handed out once: whatever stalls, breaks, fails or is     *)
(* retried, one attempt of a job is never in two places among the          *)
(* deliveries, the assignments on their way and the running handlers.      *)
Places(x) ==
    {<<"channel", s>> : s \in {t \in Stream : deliveries[t] = <<x>>}}
    \cup {<<"sending", x>> : y \in {z \in {sending} : z # NULL /\ z.work = x}}
    \cup {<<"down", s>> : s \in {t \in Stream : Has(down[t], {"assigned"}, x)}}
    \cup {<<"handler", w>> :
             w \in {v \in Worker : \E h \in handlers[v] : h.live /\ Works(h) = x}}
AttemptHandedOutOnce ==
    \A j \in Job : \A k \in 1..(jobs[j].retry_count + 1) :
       Cardinality(Places([job |-> j, attempt |-> k])) <= 1

(* A report settles the attempt it is about, although it names only job    *)
(* and worker: never a later attempt that the same worker was handed since,*)
(* whatever beats come late and however many jobs the worker runs at once. *)
ReportSettlesItsAttempt ==
    [][\A s \in Stream : (Answer(s) \/ AnswerError(s)) /\ jobs' # jobs =>
          LET m == Head(up[s])
          IN  m.type # "beat" => Works(m) = Current(m.job)]_dispatchVars

(* "A Lost for this job arriving late cannot cancel whatever runs next":   *)
(* what a Lost cancels is never the attempt its worker owns, whatever      *)
(* stalls, breaks, fails, comes late or is handed out again in between.    *)
LostSparesTheOwner ==
    [][\A w \in Worker : Receive(w) =>
          \A h \in handlers[w] \ handlers'[w] :
             ~(Owns(w, h.job) /\ Works(h) = Current(h.job))]_dispatchVars

(* One job is handled at a time by a worker process.                       *)
OneAtATime ==
    \A w \in Worker : \A g, h \in handlers[w] : g.live /\ h.live => g = h

(* A worker on a sound stream "is pushed jobs as they become available":   *)
(* a job does not stay due for ever with a worker connected that could     *)
(* take it.                                                                *)
DueIsPushed ==
    \A j \in Job, w \in Worker :
       Visible(j) /\ CanSend(w) ~> ~Visible(j) \/ ~CanSend(w)

(* Every job that was filed is done or dead in the end.                    *)
FiledIsSettled ==
    \A j \in Job : jobs[j].state # "none" ~> jobs[j].state \in {"done", "failed"}
=============================================================================
