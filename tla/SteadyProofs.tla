----------------------------- MODULE SteadyProofs ---------------------------
(***************************************************************************)
(* Proofs about Dispatch while the environment does nothing wrong (Calm):  *)
(* how the dispatcher's line, the channels, the leases and the workers     *)
(* agree with each other, for any number of jobs, workers and streams.     *)
(* The first half is about a worker none of whose beats follows its report *)
(* (~LateBeats), the second about the worker as it is written.             *)
(***************************************************************************)
EXTENDS DispatchProofs

(***************************************************************************)
(* No stall, no broken stream, no crash and no failing statement (jobs may *)
(* be filed through a follower), so that no lease lapses; and jobs filed   *)
(* with retries whose backoff make_interval can hold.  The second is       *)
(* needed: FailJob fails on one that it cannot hold, which leaves the job  *)
(* with the worker and yet counts the worker as free.                      *)
(***************************************************************************)
FiledMax(max) == IF max = 0 THEN 3 ELSE max
Calm ==
    /\ Faults \subseteq {"follower"}
    /\ \A max \in MaxRetriesIn : \A k \in 0..(FiledMax(max) - 1) :
          RetryDelay * 2 ^ k <= MaxInterval

(***************************************************************************)
(* The inductive invariant.  A worker keeps the one stream it opened, no   *)
(* lease runs out, and no report is refused for its backoff.               *)
(***************************************************************************)
Wired ==
    /\ \A s \in Stream : /\ broken[s] = FALSE
                         /\ pc[s] \in {"unused", "register", "select"}
                         /\ pc[s] = "unused" => of[s] = NoWorker
                         /\ pc[s] # "unused" => conn[of[s]] = s
    /\ \A w \in Worker : \/ conn[w] = NoStream
                         \/ conn[w] \in Stream /\ of[conn[w]] = w
NoneLapsed == \A j \in Job : \/ jobs[j].lease_expires_at = NULL
                             \/ jobs[j].lease_expires_at >= 0
BackoffsFit == \A j \in Job : \A k \in 0..(jobs[j].max_retries - 1) :
                  RetryDelay * 2 ^ k <= MaxInterval

(* What a table t says of worker w: it has job j; no job; attempt x alone. *)
Holds(t, w, j) == t[j].worker_id = w /\ t[j].state = "processing"
HoldsNone(t, w) == \A j \in Job : ~Holds(t, w, j)
HoldsOnly(t, w, x) ==
    /\ x \in Work
    /\ Holds(t, w, x.job) /\ x.attempt = t[x.job].retry_count + 1
    /\ \A j \in Job : Holds(t, w, j) => j = x.job

(* How far a worker is with attempt x, from its stream's channel d, the    *)
(* messages down n and up u, and its handlers h: x waits in the channel;   *)
(* is on its way; is worked on and beaten for; or is reported, and then    *)
(* the report is the last thing the worker says of it.  Results of earlier *)
(* attempts may still be on their way down.                                *)
Verdict == {"completed", "failed"}
Results(n) == \A i \in 1..Len(n) : n[i].type = "result"
Beats(u, x) == \A i \in 1..Len(u) : u[i].type = "beat" /\ Works(u[i]) = x
Idle(d, n, u, h) == d = <<>> /\ Results(n) /\ u = <<>> /\ h = {}
Queued(x, d, n, u, h) == d = <<x>> /\ Results(n) /\ u = <<>> /\ h = {}
Assigned(x, d, n, u, h) ==
    /\ d = <<>> /\ u = <<>> /\ h = {}
    /\ \E k \in 1..Len(n) : /\ n[k].type = "assigned" /\ Works(n[k]) = x
                            /\ \A i \in 1..Len(n) : i # k => n[i].type = "result"
Working(x, d, n, u, h) ==
    /\ d = <<>> /\ Results(n) /\ Beats(u, x)
    /\ \E g \in Handler : h = {g} /\ g.live /\ Works(g) = x
Reported(x, d, n, u, h) ==
    /\ d = <<>> /\ Results(n) /\ h = {} /\ u # <<>>
    /\ \A i \in 1..Len(u) : Works(u[i]) = x
    /\ \A i \in 1..Len(u) : u[i].type \in IF i = Len(u) THEN Verdict ELSE {"beat"}
Stage(x, d, n, u, h) ==
    \/ Queued(x, d, n, u, h) \/ Assigned(x, d, n, u, h)
    \/ Working(x, d, n, u, h) \/ Reported(x, d, n, u, h)

(* Table and worker agree: it is idle and holds nothing, or it is at some  *)
(* stage of the one attempt it holds.                                      *)
Agrees(t, w, d, n, u, h) ==
    \/ HoldsNone(t, w) /\ Idle(d, n, u, h)
    \/ \E x : HoldsOnly(t, w, x) /\ Stage(x, d, n, u, h)

(* A worker rests when its handler is about to register it, or it is in    *)
(* line.  The handler that registers one keeps the mutex for its pass.     *)
Registers(p, m, s) == p[s] = "register" /\ m # s
Rests(p, m, q, s) == Registers(p, m, s) \/ \E i \in 1..Len(q) : q[i] = s

CargoInv ==
    /\ sending = NULL
    /\ \A s \in Stream : pc[s] = "unused" =>
          deliveries[s] = <<>> /\ down[s] = <<>> /\ up[s] = <<>>
    /\ \A w \in Worker : conn[w] = NoStream => HoldsNone(jobs, w) /\ handlers[w] = {}
    /\ \A w \in Worker, s \in Stream : conn[w] = s =>
          Agrees(jobs, w, deliveries[s], down[s], up[s], handlers[w])
RestInv ==
    /\ \A i \in 1..Len(waiters) : ~Registers(pc, mu, waiters[i])
    /\ \A w \in Worker, s \in Stream : conn[w] = s /\ Rests(pc, mu, waiters, s)
          => HoldsNone(jobs, w)

SteadyInv == Wired /\ NoneLapsed /\ BackoffsFit /\ CargoInv /\ RestInv
-----------------------------------------------------------------------------
(* The steps that are left.                                                *)
LEMMA CalmStep ==
    ASSUME Calm, Wired, NoneLapsed, StoreTypeOK, [DispatchNext]_dispatchVars
    PROVE  \/ \E s \in Stream : Register(s) \/ Deliver(s) \/ Answer(s)
           \/ Push("enqueue") \/ Push("timer") \/ PushDone \/ TimerFires
           \/ \E j \in Job : PushClaim(j) \/ Enqueue(j) \/ EnqueueUnpushed(j)
           \/ DispatchTick
           \/ \E w \in Worker : WorkerStep(w)
           \/ \E w \in Worker, s \in Stream : Connect(w, s)
           \/ UNCHANGED dispatchVars
<1>1. ASSUME NEW s \in Stream
      PROVE  ~Forget(s) /\ ~AnswerError(s) /\ ~HandlerEnds(s) /\ ~Break(s)
  BY DEF Calm, Wired, Forget, AnswerError, HandlerEnds, Break
<1>2. ~PushError
  BY DEF Calm, PushError
<1>3. ~Reap
  <2>1. \A j \in Job : ~Expired(j)
    BY StoreAssumption DEF NoneLapsed, Expired, StoreTypeOK, Row
  <2> QED BY <2>1 DEF Reap, Swept
<1>4. ASSUME NEW w \in Worker
      PROVE  ~Disconnected(w) /\ ~WorkerCrash(w)
  BY DEF Calm, Wired, Disconnected, WorkerCrash
<1> QED BY <1>1, <1>2, <1>3, <1>4 DEF DispatchNext, ServerStep

LEMMA WiredInductive ==
    ASSUME Calm, DispatchInv, Wired, NoneLapsed, [DispatchNext]_dispatchVars
    PROVE  Wired'
<1>0. /\ pc \in [Stream -> PcState] /\ of \in [Stream -> Worker \cup {NoWorker}]
      /\ conn \in [Worker -> Stream \cup {NoStream, "dead"}]
      /\ \A s \in Stream : pc[s] # "unused" => of[s] \in Worker
      /\ mu \in Stream => pc[mu] = "register"
      /\ NoStream \notin Stream /\ NoWorker \notin Worker
  BY DispatchAssumption, StoreAssumption
     DEF DispatchInv, LineTyped, LineInv, FlowTyped, WorkersTyped
<1>a. /\ \A s \in Stream : /\ broken[s] = FALSE
                           /\ pc[s] \in {"unused", "register", "select"}
                           /\ pc[s] = "unused" => of[s] = NoWorker
                           /\ pc[s] # "unused" => conn[of[s]] = s
      /\ \A w \in Worker : \/ conn[w] = NoStream
                           \/ conn[w] \in Stream /\ of[conn[w]] = w
  BY DEF Wired
<1>1. ASSUME UNCHANGED <<of, broken, conn>>,
             \A s \in Stream : \/ pc'[s] = pc[s]
                               \/ pc[s] # "unused" /\ pc'[s] \in {"register", "select"}
      PROVE  Wired'
  BY <1>a, <1>1 DEF Wired
<1>2. ASSUME NEW s \in Stream, Register(s) \/ Deliver(s)
      PROVE  Wired'
  <2>1. UNCHANGED <<of, broken, conn>>
    BY <1>2 DEF Register, Deliver, workerVars
  <2>2. \A t \in Stream : \/ pc'[t] = pc[t]
                          \/ pc[t] # "unused" /\ pc'[t] \in {"register", "select"}
    BY <1>0, <1>2 DEF Register, Deliver
  <2> QED BY <1>1, <2>1, <2>2
<1>3. ASSUME NEW s \in Stream, Answer(s)
      PROVE  Wired'
  <2>1. UNCHANGED <<of, broken, conn>>
    BY <1>3 DEF Answer, workerVars
  <2>2. pc[s] = "select" /\ \E x \in {"register", "select"} : pc' = [pc EXCEPT ![s] = x]
    BY <1>3, <1>a DEF Answer, Replied
  <2>3. \A t \in Stream : \/ pc'[t] = pc[t]
                          \/ pc[t] # "unused" /\ pc'[t] \in {"register", "select"}
    BY <1>0, <2>2
  <2> QED BY <1>1, <2>1, <2>3
<1>4. CASE PushDone
  <2>1. UNCHANGED <<of, broken, conn>>
    BY <1>4 DEF PushDone, workerVars
  <2>2. \A t \in Stream : \/ pc'[t] = pc[t]
                          \/ pc[t] # "unused" /\ pc'[t] \in {"register", "select"}
    BY <1>0, <1>4 DEF PushDone, Unlock
  <2> QED BY <1>1, <2>1, <2>2
<1>5. CASE \/ Push("enqueue") \/ Push("timer") \/ TimerFires
           \/ \E j \in Job : PushClaim(j) \/ Enqueue(j) \/ EnqueueUnpushed(j)
           \/ DispatchTick
           \/ \E w \in Worker : WorkerStep(w)
           \/ UNCHANGED dispatchVars
  <2>1. UNCHANGED <<of, broken, conn, pc>>
    BY <1>5 DEF Push, TimerFires, PushClaim, Enqueue, EnqueueUnpushed, DispatchTick,
                WorkerStep, Receive, Report, Beat, dispatchVars, streamVars, workerVars
  <2> QED BY <1>1, <2>1
<1>6. ASSUME NEW w \in Worker, NEW s \in Stream, Connect(w, s)
      PROVE  Wired'
  <2>1. /\ conn[w] = NoStream /\ pc[s] = "unused" /\ broken' = broken
        /\ \A v \in Worker : conn'[v] = IF v = w THEN s ELSE conn[v]
        /\ \A t \in Stream : of'[t] = IF t = s THEN w ELSE of[t]
        /\ \A t \in Stream : pc'[t] = IF t = s THEN "register" ELSE pc[t]
    BY <1>0, <1>6 DEF Connect
  <2>2. \A t \in Stream : /\ broken'[t] = FALSE
                          /\ pc'[t] \in {"unused", "register", "select"}
                          /\ pc'[t] = "unused" => of'[t] = NoWorker
    BY <1>a, <2>1
  <2>3. ASSUME NEW t \in Stream, pc'[t] # "unused"
        PROVE  conn'[of'[t]] = t
    BY <1>0, <1>a, <2>1, <2>3
  <2>4. ASSUME NEW v \in Worker
        PROVE  conn'[v] = NoStream \/ (conn'[v] \in Stream /\ of'[conn'[v]] = v)
    BY <1>0, <1>a, <2>1
  <2> QED BY <2>2, <2>3, <2>4 DEF Wired
<1> QED BY <1>2, <1>3, <1>4, <1>5, <1>6, CalmStep DEF DispatchInv
-----------------------------------------------------------------------------
(* The rows.                                                               *)

(* A backoff that is asked for fits.                                       *)
LEMMA BackoffFits ==
    ASSUME StoreTypeOK, BackoffsFit, NEW j \in Job, HasRetries(jobs[j])
    PROVE  ~(Backoff(jobs[j]) > MaxInterval)
<1>1. jobs[j].retry_count \in Nat /\ jobs[j].max_retries \in Int
  BY RowTypes
<1>2. jobs[j].retry_count \in 0..(jobs[j].max_retries - 1)
  BY <1>1 DEF HasRetries
<1>3. RetryDelay * 2 ^ jobs[j].retry_count <= MaxInterval
  BY <1>2 DEF BackoffsFit
<1>4. Backoff(jobs[j]) \in Int /\ MaxInterval \in Int
  BY RowTypes, BackoffIsInt, StoreAssumption
<1> QED BY <1>3, <1>4 DEF Backoff

(* A report of its holder is never refused.                                *)
LEMMA HolderNotRefused ==
    ASSUME StoreTypeOK, BackoffsFit, NEW w, NEW m \in Message, Owns(w, m.job)
    PROVE  ~Refused(w, m)
<1>1. m.job \in Job
  BY DEF Message
<1> QED BY <1>1, BackoffFits DEF Refused
-----------------------------------------------------------------------------
(* The stages, one after another.                                          *)

(* The places of a sequence with one message taken off or put on.          *)
LEMMA TailPlaces ==
    ASSUME NEW S, NEW q \in Seq(S), q # <<>>
    PROVE  /\ Len(q) \in Nat /\ Len(q) >= 1 /\ Len(Tail(q)) = Len(q) - 1
           /\ Tail(q) \in Seq(S)
           /\ 1 \in 1..Len(q) /\ Head(q) = q[1] /\ q[1] \in S
           /\ \A i \in 1..Len(Tail(q)) : i + 1 \in 1..Len(q) /\ Tail(q)[i] = q[i + 1]
<1>1. /\ Len(Tail(q)) = Len(q) - 1 /\ Tail(q) \in Seq(S) /\ Head(q) \in S
      /\ \A i \in 1..Len(Tail(q)) : Tail(q)[i] = q[i + 1]
  BY HeadTailProperties
<1>2. Len(q) \in Nat /\ Len(q) # 0
  BY LenProperties
<1>3. Len(q) >= 1 /\ 1 \in 1..Len(q) /\ Head(q) = q[1]
  BY <1>2
<1>4. \A i \in 1..Len(Tail(q)) : i + 1 \in 1..Len(q)
  BY <1>1, <1>2
<1> QED BY <1>1, <1>2, <1>3, <1>4

LEMMA LastPlaces ==
    ASSUME NEW S, NEW q \in Seq(S), NEW m \in S, NEW r, r = Append(q, m) \/ r = q \o <<m>>
    PROVE  /\ Len(q) \in Nat /\ Len(r) = Len(q) + 1 /\ r \in Seq(S) /\ r # <<>>
           /\ Len(r) \in 1..Len(r) /\ r[Len(r)] = m
           /\ \A i \in 1..Len(r) : i # Len(r) => i \in 1..Len(q) /\ r[i] = q[i]
           /\ \A i \in 1..Len(q) : i \in 1..Len(r) /\ i # Len(r)
<1>1. Len(q) \in Nat
  BY LenProperties
<1>2. r = Append(q, m)
  <2>1. q \o <<m>> = Append(q, m)
    BY AppendIsConcat
  <2> QED BY <2>1
<1>3. /\ r \in Seq(S) /\ Len(r) = Len(q) + 1
      /\ \A i \in 1..Len(q) : r[i] = q[i]
      /\ r[Len(q) + 1] = m
  BY <1>2, AppendProperties
<1>4. /\ \A i \in 1..Len(r) : i # Len(r) => i \in 1..Len(q)
      /\ \A i \in 1..Len(q) : i \in 1..Len(r) /\ i # Len(r)
      /\ Len(r) \in 1..Len(r) /\ Len(r) # 0
  BY <1>1, <1>3
<1>5. r # <<>>
  BY <1>4
<1> QED BY <1>1, <1>3, <1>4, <1>5

(* A result joins, or leaves, those on their way down.                     *)
LEMMA ResultsTaken ==
    ASSUME NEW n \in Seq(Message), n # <<>>, Results(n)
    PROVE  Head(n).type = "result" /\ Results(Tail(n))
<1>1. /\ 1 \in 1..Len(n) /\ Head(n) = n[1]
      /\ \A i \in 1..Len(Tail(n)) : i + 1 \in 1..Len(n) /\ Tail(n)[i] = n[i + 1]
  BY TailPlaces
<1> QED BY <1>1 DEF Results

LEMMA ResultsSent ==
    ASSUME NEW n \in Seq(Message), NEW m \in Message, m.type = "result", Results(n)
    PROVE  Results(n \o <<m>>)
<1> DEFINE r == n \o <<m>>
<1>1. /\ r[Len(r)] = m
      /\ \A i \in 1..Len(r) : i # Len(r) => i \in 1..Len(n) /\ r[i] = n[i]
  BY LastPlaces
<1> QED BY <1>1 DEF Results

(* The handler takes the delivery out of the channel and sends it.         *)
LEMMA QueuedToAssigned ==
    ASSUME NEW x, NEW d, NEW n \in Seq(Message), NEW u, NEW h, NEW m \in Message,
           Queued(x, d, n, u, h), m.type = "assigned", Works(m) = x
    PROVE  Assigned(x, <<>>, n \o <<m>>, u, h)
<1> DEFINE r == n \o <<m>>
<1>1. /\ r[Len(r)] = m /\ Len(r) \in 1..Len(r)
      /\ \A i \in 1..Len(r) : i # Len(r) => i \in 1..Len(n) /\ r[i] = n[i]
  BY LastPlaces
<1>2. \A i \in 1..Len(r) : i # Len(r) => r[i].type = "result"
  BY <1>1 DEF Queued, Results
<1> HIDE DEF r
<1>3. \E k \in 1..Len(r) : /\ r[k].type = "assigned" /\ Works(r[k]) = x
                           /\ \A i \in 1..Len(r) : i # k => r[i].type = "result"
  BY <1>1, <1>2
<1>4. Assigned(x, <<>>, r, u, h)
  BY <1>3 DEF Queued, Assigned
<1> QED BY <1>4 DEF r

(* The worker reads the assignment, or a result ahead of it.               *)
LEMMA AssignedTaken ==
    ASSUME NEW x, NEW d, NEW n \in Seq(Message), NEW u, NEW h, n # <<>>,
           Assigned(x, d, n, u, h)
    PROVE  \/ /\ Head(n).type = "assigned" /\ Works(Head(n)) = x
              /\ d = <<>> /\ u = <<>> /\ h = {} /\ Results(Tail(n))
           \/ Head(n).type = "result" /\ Assigned(x, d, Tail(n), u, h)
<1> DEFINE r == Tail(n)
<1>1. /\ 1 \in 1..Len(n) /\ Head(n) = n[1]
      /\ Len(n) \in Nat /\ Len(r) = Len(n) - 1
      /\ \A i \in 1..Len(r) : i + 1 \in 1..Len(n) /\ r[i] = n[i + 1]
  BY TailPlaces
<1>2. PICK k \in 1..Len(n) : /\ n[k].type = "assigned" /\ Works(n[k]) = x
                             /\ \A i \in 1..Len(n) : i # k => n[i].type = "result"
  BY DEF Assigned
<1>3. d = <<>> /\ u = <<>> /\ h = {}
  BY DEF Assigned
<1> HIDE DEF r
<1>4. CASE k = 1
  <2>1. \A i \in 1..Len(r) : i + 1 # k
    BY <1>4
  <2>2. Results(r)
    BY <1>1, <1>2, <2>1 DEF Results
  <2> QED BY <1>1, <1>2, <1>3, <1>4, <2>2 DEF r
<1>5. CASE k # 1
  <2>1. Head(n).type = "result"
    BY <1>1, <1>2, <1>5
  <2>2. k - 1 \in 1..Len(r) /\ (k - 1) + 1 = k
    BY <1>1, <1>5
  <2>3. r[k - 1] = n[k]
    BY <1>1, <2>2
  <2>4. \A i \in 1..Len(r) : i # k - 1 => i + 1 # k
    BY <1>1, <2>2
  <2>5. \A i \in 1..Len(r) : i # k - 1 => r[i].type = "result"
    BY <1>1, <1>2, <2>4
  <2>6. \E l \in 1..Len(r) : /\ r[l].type = "assigned" /\ Works(r[l]) = x
                             /\ \A i \in 1..Len(r) : i # l => r[i].type = "result"
    BY <1>2, <2>2, <2>3, <2>5
  <2>7. Assigned(x, d, r, u, h)
    BY <1>3, <2>6 DEF Assigned
  <2> QED BY <2>1, <2>7 DEF r
<1> QED BY <1>4, <1>5

(* A handler beats, and in the end reports.                                *)
LEMMA WorkingBeats ==
    ASSUME NEW x, NEW d, NEW n, NEW u \in Seq(Message), NEW h, NEW g \in h,
           NEW m \in Message, NEW g2 \in Handler,
           Working(x, d, n, u, h), m.type = "beat", Works(m) = Works(g),
           g2.live, Works(g2) = Works(g)
    PROVE  Working(x, d, n, Append(u, m), (h \ {g}) \cup {g2})
<1> DEFINE r == Append(u, m)
<1>1. /\ r[Len(r)] = m
      /\ \A i \in 1..Len(r) : i # Len(r) => i \in 1..Len(u) /\ r[i] = u[i]
  BY LastPlaces
<1>2. h = {g} /\ Works(g) = x
  BY DEF Working
<1>3. Beats(r, x)
  BY <1>1, <1>2 DEF Working, Beats
<1>4. (h \ {g}) \cup {g2} = {g2}
  BY <1>2
<1> HIDE DEF r
<1>5. Working(x, d, n, r, {g2})
  BY <1>2, <1>3 DEF Working
<1> QED BY <1>4, <1>5 DEF r

LEMMA WorkingReports ==
    ASSUME NEW x, NEW d, NEW n, NEW u \in Seq(Message), NEW h, NEW g \in h,
           NEW m \in Message,
           Working(x, d, n, u, h), m.type \in Verdict, Works(m) = Works(g)
    PROVE  Reported(x, d, n, Append(u, m), h \ {g})
<1> DEFINE r == Append(u, m)
<1>1. /\ r[Len(r)] = m /\ r # <<>>
      /\ \A i \in 1..Len(r) : i # Len(r) => i \in 1..Len(u) /\ r[i] = u[i]
  BY LastPlaces
<1>2. h = {g} /\ Works(g) = x
  BY DEF Working
<1>3. h \ {g} = {}
  BY <1>2
<1> HIDE DEF r
<1>4. \A i \in 1..Len(r) : Works(r[i]) = x
  BY <1>1, <1>2 DEF Working, Beats
<1>5. \A i \in 1..Len(r) : r[i].type \in IF i = Len(r) THEN Verdict ELSE {"beat"}
  BY <1>1 DEF Working, Beats
<1>6. Reported(x, d, n, r, h \ {g})
  BY <1>1, <1>3, <1>4, <1>5 DEF Working, Reported
<1> QED BY <1>6 DEF r

(* The handler on the server takes what the worker says of the attempt: a  *)
(* beat, with the attempt at the same stage, or the report, the last.      *)
LEMMA SaidOfAttempt ==
    ASSUME NEW x, NEW d, NEW n, NEW u \in Seq(Message), NEW h, u # <<>>,
           Stage(x, d, n, u, h)
    PROVE  /\ Works(Head(u)) = x
           /\ \/ Head(u).type = "beat" /\ Stage(x, d, n, Tail(u), h)
              \/ Head(u).type \in Verdict /\ Idle(d, n, Tail(u), h)
<1> DEFINE r == Tail(u)
<1>1. /\ 1 \in 1..Len(u) /\ Head(u) = u[1]
      /\ Len(u) \in Nat /\ Len(r) = Len(u) - 1 /\ r \in Seq(Message)
      /\ \A i \in 1..Len(r) : i + 1 \in 1..Len(u) /\ r[i] = u[i + 1]
  BY TailPlaces
<1> HIDE DEF r
<1>2. CASE Working(x, d, n, u, h)
  <2>1. Head(u).type = "beat" /\ Works(Head(u)) = x /\ Beats(r, x)
    BY <1>1, <1>2 DEF Working, Beats
  <2>2. Working(x, d, n, r, h)
    BY <1>2, <2>1 DEF Working
  <2> QED BY <2>1, <2>2 DEF Stage, r
<1>3. CASE Reported(x, d, n, u, h)
  <2>1. /\ d = <<>> /\ Results(n) /\ h = {}
        /\ \A i \in 1..Len(u) : Works(u[i]) = x
        /\ \A i \in 1..Len(u) : u[i].type \in IF i = Len(u) THEN Verdict ELSE {"beat"}
    BY <1>3 DEF Reported
  <2>2. CASE Len(u) = 1
    <3>1. r = <<>>
      BY <1>1, <2>2, EmptySeq
    <3> QED BY <1>1, <2>1, <2>2, <3>1 DEF Idle, r
  <2>3. CASE Len(u) # 1
    <3>1. Head(u).type = "beat" /\ Works(Head(u)) = x
      BY <1>1, <2>1, <2>3
    <3>2. Len(r) # 0 /\ r # <<>>
      BY <1>1, <2>3
    <3>3. \A i \in 1..Len(r) : i + 1 = Len(u) <=> i = Len(r)
      BY <1>1
    <3>4. \A i \in 1..Len(r) : r[i].type \in IF i = Len(r) THEN Verdict ELSE {"beat"}
      BY <1>1, <2>1, <3>3
    <3>5. \A i \in 1..Len(r) : Works(r[i]) = x
      BY <1>1, <2>1
    <3>6. Reported(x, d, n, r, h)
      BY <2>1, <3>2, <3>4, <3>5 DEF Reported
    <3> QED BY <3>1, <3>6 DEF Stage, r
  <2> QED BY <2>2, <2>3
<1> QED BY <1>2, <1>3 DEF Stage, Queued, Assigned
-----------------------------------------------------------------------------
(* The table.                                                              *)

(* Tables t and t2 say the same of worker w.                               *)
SameFor(t, t2, w) ==
    \A j \in Job : /\ Holds(t2, w, j) <=> Holds(t, w, j)
                   /\ Holds(t, w, j) => t2[j].retry_count = t[j].retry_count

LEMMA AgreesKept ==
    ASSUME NEW t, NEW t2, NEW w, NEW d, NEW n, NEW u, NEW h,
           SameFor(t, t2, w), Agrees(t, w, d, n, u, h)
    PROVE  Agrees(t2, w, d, n, u, h)
<1>1. CASE HoldsNone(t, w) /\ Idle(d, n, u, h)
  BY <1>1 DEF Agrees, HoldsNone, SameFor
<1>2. ASSUME NEW x, HoldsOnly(t, w, x), Stage(x, d, n, u, h)
      PROVE  Agrees(t2, w, d, n, u, h)
  <2>1. x.job \in Job
    BY <1>2 DEF HoldsOnly, Work
  <2>2. HoldsOnly(t2, w, x)
    BY <1>2, <2>1 DEF HoldsOnly, SameFor
  <2> QED BY <1>2, <2>2 DEF Agrees
<1> QED BY <1>1, <1>2 DEF Agrees

LEMMA RestedIsIdle ==
    ASSUME NEW t, NEW w, NEW d, NEW n, NEW u, NEW h,
           Agrees(t, w, d, n, u, h), HoldsNone(t, w)
    PROVE  Idle(d, n, u, h)
BY DEF Agrees, HoldsNone, HoldsOnly, Work

(* Nobody's jobs change as jobs are filed or time passes; only its own do  *)
(* as a worker claims, beats and reports.                                  *)
LEMMA SameWhenRowKept ==
    ASSUME NEW w, NEW i \in Job, jobs \in [Job -> Row], NEW r,
           jobs' = [jobs EXCEPT ![i] = r],
           \/ ~Holds(jobs, w, i) /\ ~(r.worker_id = w /\ r.state = "processing")
           \/ /\ r.worker_id = jobs[i].worker_id /\ r.state = jobs[i].state
              /\ r.retry_count = jobs[i].retry_count
    PROVE  SameFor(jobs, jobs', w)
<1>1. \A j \in Job : jobs'[j] = IF j = i THEN r ELSE jobs[j]
  OBVIOUS
<1> QED BY <1>1 DEF SameFor, Holds

LEMMA FilingSame ==
    ASSUME StoreTypeOK, NEW i \in Job, NEW status, NEW max, CreateJob(i, status, max),
           NEW w \in Worker
    PROVE  SameFor(jobs, jobs', w)
<1> DEFINE r == [NewRow EXCEPT !.state = IF status = "unset" THEN "pending" ELSE status,
                               !.max_retries = IF max = 0 THEN 3 ELSE max]
<1>1. jobs' = [jobs EXCEPT ![i] = r] /\ jobs[i].state = "none"
  BY DEF CreateJob
<1>2. r.worker_id = NoWorker
  BY DEF NewRow
<1>3. w # NoWorker
  BY StoreAssumption
<1> HIDE DEF r
<1>4. ~Holds(jobs, w, i) /\ ~(r.worker_id = w /\ r.state = "processing")
  BY <1>1, <1>2, <1>3 DEF Holds
<1> QED BY <1>1, <1>4, SameWhenRowKept DEF StoreTypeOK

LEMMA TickSame ==
    ASSUME StoreTypeOK, TickJobs, NEW w
    PROVE  SameFor(jobs, jobs', w)
<1>1. \A j \in Job : jobs'[j] = Aged(jobs[j]) /\ jobs[j] \in Row
  BY DEF TickJobs, StoreTypeOK
<1>2. ASSUME NEW r \in Row
      PROVE  /\ Aged(r).state = r.state /\ Aged(r).worker_id = r.worker_id
             /\ Aged(r).retry_count = r.retry_count
  BY DEF Aged, Row
<1> QED BY <1>1, <1>2 DEF SameFor, Holds

LEMMA BeatSame ==
    ASSUME StoreTypeOK, NEW v, NEW i \in Job, HeartbeatJob(v, i), NEW w
    PROVE  SameFor(jobs, jobs', w)
<1> DEFINE r == [jobs[i] EXCEPT !.lease_expires_at = LeaseFor]
<1>1. jobs[i] \in Row
  BY DEF StoreTypeOK
<1>2. jobs' = [jobs EXCEPT ![i] = r]
  BY DEF HeartbeatJob
<1>3. /\ r.worker_id = jobs[i].worker_id /\ r.state = jobs[i].state
      /\ r.retry_count = jobs[i].retry_count
  BY <1>1 DEF Row
<1> HIDE DEF r
<1> QED BY <1>2, <1>3, SameWhenRowKept DEF StoreTypeOK

LEMMA ClaimSame ==
    ASSUME StoreTypeOK, NEW t, NEW v, NEW i \in Job, DequeueJob(t, v, i)
    PROVE  /\ \A w : w # v => SameFor(jobs, jobs', w)
           /\ HoldsNone(jobs, v)
                 => HoldsOnly(jobs', v, [job |-> i, attempt |-> jobs[i].retry_count + 1])
<1> DEFINE r == [jobs[i] EXCEPT !.state = "processing", !.worker_id = v,
                                !.claim_term = Stamp(jobs[i].claim_term, t),
                                !.lease_expires_at = LeaseFor]
           x == [job |-> i, attempt |-> jobs[i].retry_count + 1]
<1>1. jobs \in [Job -> Row] /\ jobs[i] \in Row /\ jobs[i].retry_count \in Nat
  BY RowTypes DEF StoreTypeOK
<1>2. jobs' = [jobs EXCEPT ![i] = r] /\ jobs[i].state = "pending"
  BY DEF DequeueJob, Visible
<1>3. /\ r.worker_id = v /\ r.state = "processing"
      /\ r.retry_count = jobs[i].retry_count
  BY <1>1 DEF Row
<1>4. x \in Work /\ x.job = i /\ x.attempt = jobs[i].retry_count + 1
  BY <1>1 DEF Work
<1> HIDE DEF r, x
<1>5. ASSUME NEW w, w # v
      PROVE  SameFor(jobs, jobs', w)
  <2>1. ~Holds(jobs, w, i) /\ ~(r.worker_id = w /\ r.state = "processing")
    BY <1>2, <1>3, <1>5 DEF Holds
  <2> QED BY <1>1, <1>2, <2>1, SameWhenRowKept
<1>6. ASSUME HoldsNone(jobs, v)
      PROVE  HoldsOnly(jobs', v, x)
  <2>1. \A j \in Job : jobs'[j] = IF j = i THEN r ELSE jobs[j]
    BY <1>1, <1>2
  <2>2. Holds(jobs', v, i) /\ x.attempt = jobs'[i].retry_count + 1
    BY <1>3, <1>4, <2>1 DEF Holds
  <2>3. \A j \in Job : Holds(jobs', v, j) => j = i
    BY <1>6, <2>1 DEF Holds, HoldsNone
  <2> QED BY <1>4, <2>2, <2>3 DEF HoldsOnly
<1> QED BY <1>5, <1>6 DEF x

LEMMA ReportSame ==
    ASSUME StoreTypeOK, NEW v \in Worker, NEW i \in Job, Complete(v, i) \/ FailJob(v, i)
    PROVE  /\ \A w \in Worker : w # v => SameFor(jobs, jobs', w)
           /\ \A x : HoldsOnly(jobs, v, x) => HoldsNone(jobs', v)
<1>1. jobs \in [Job -> Row] /\ jobs[i] \in Row
  BY DEF StoreTypeOK
<1>2. Holds(jobs, v, i)
  BY DEF Complete, FailJob, Owns, Holds
<1>3. PICK r : jobs' = [jobs EXCEPT ![i] = r] /\ r.worker_id = NoWorker
  <2>1. CASE Complete(v, i)
    <3> DEFINE q == [jobs[i] EXCEPT !.state = "done", !.worker_id = NoWorker,
                                    !.lease_expires_at = NULL]
    <3>1. jobs' = [jobs EXCEPT ![i] = q]
      BY <2>1 DEF Complete
    <3>2. q.worker_id = NoWorker
      BY <1>1 DEF Row
    <3> QED BY <3>1, <3>2
  <2>2. CASE FailJob(v, i)
    <3> DEFINE q(k) == Released(jobs[i], k)
    <3>1. \A k : q(k).worker_id = NoWorker
      BY <1>1 DEF Released, Row
    <3>2. \E k : jobs' = [jobs EXCEPT ![i] = q(k)]
      BY <2>2 DEF FailJob
    <3> QED BY <3>1, <3>2
  <2> QED BY <2>1, <2>2
<1>4. NoWorker \notin Worker
  BY StoreAssumption
<1>5. \A j \in Job : jobs'[j] = IF j = i THEN r ELSE jobs[j]
  BY <1>1, <1>3
<1>6. ASSUME NEW w \in Worker, w # v
      PROVE  SameFor(jobs, jobs', w)
  <2>1. ~Holds(jobs, w, i) /\ ~(r.worker_id = w /\ r.state = "processing")
    BY <1>2, <1>3, <1>4, <1>6 DEF Holds
  <2> QED BY <1>1, <1>3, <2>1, SameWhenRowKept
<1>7. ASSUME NEW x, HoldsOnly(jobs, v, x)
      PROVE  HoldsNone(jobs', v)
  <2>1. \A j \in Job : Holds(jobs, v, j) => j = i
    BY <1>2, <1>7 DEF HoldsOnly
  <2> QED BY <1>3, <1>4, <1>5, <2>1 DEF HoldsNone, Holds
<1> QED BY <1>6, <1>7

(* No lease runs out and no backoff is too long: the one row a step writes *)
(* has a fresh lease or none, and the retries it had or was filed with.    *)
GoodRow(r, max) ==
    /\ r.lease_expires_at = NULL \/ r.lease_expires_at >= 0
    /\ \/ r.max_retries = max
       \/ \E m \in MaxRetriesIn : r.max_retries = FiledMax(m)
LEMMA OneRowWritten ==
    ASSUME Calm, StoreTypeOK, NoneLapsed, BackoffsFit, NEW i \in Job, NEW r,
           jobs' = [jobs EXCEPT ![i] = r], GoodRow(r, jobs[i].max_retries)
    PROVE  NoneLapsed' /\ BackoffsFit'
<1>1. \A j \in Job : jobs'[j] = IF j = i THEN r ELSE jobs[j]
  BY DEF StoreTypeOK
<1>2. NoneLapsed'
  BY <1>1 DEF NoneLapsed, GoodRow
<1>3. \A k \in 0..(r.max_retries - 1) : RetryDelay * 2 ^ k <= MaxInterval
  BY DEF GoodRow, BackoffsFit, Calm
<1>4. BackoffsFit'
  BY <1>1, <1>3 DEF BackoffsFit
<1> QED BY <1>2, <1>4

LEMMA AppliedGood ==
    ASSUME Calm, StoreTypeOK, NoneLapsed, BackoffsFit, NEW w, NEW m \in Message,
           Applied(w, m)
    PROVE  NoneLapsed' /\ BackoffsFit'
<1> DEFINE i == m.job
<1>1. i \in Job
  BY DEF Message
<1> HIDE DEF i
<1>2. jobs[i] \in Row /\ LeaseFor \in Nat
  BY <1>1, StoreAssumption DEF StoreTypeOK
<1>3. CASE HeartbeatJob(w, i)
  <2> DEFINE r == [jobs[i] EXCEPT !.lease_expires_at = LeaseFor]
  <2>1. jobs' = [jobs EXCEPT ![i] = r]
    BY <1>3 DEF HeartbeatJob
  <2>2. r.lease_expires_at = LeaseFor /\ r.max_retries = jobs[i].max_retries
    BY <1>2 DEF Row
  <2> HIDE DEF r
  <2>3. GoodRow(r, jobs[i].max_retries)
    BY <1>2, <2>2 DEF GoodRow
  <2> QED BY <1>1, <2>1, <2>3, OneRowWritten
<1>4. CASE Complete(w, i)
  <2> DEFINE r == [jobs[i] EXCEPT !.state = "done", !.worker_id = NoWorker,
                                  !.lease_expires_at = NULL]
  <2>1. jobs' = [jobs EXCEPT ![i] = r]
    BY <1>4 DEF Complete
  <2>2. r.lease_expires_at = NULL /\ r.max_retries = jobs[i].max_retries
    BY <1>2 DEF Row
  <2> HIDE DEF r
  <2>3. GoodRow(r, jobs[i].max_retries)
    BY <2>2 DEF GoodRow
  <2> QED BY <1>1, <2>1, <2>3, OneRowWritten
<1>5. CASE FailJob(w, i)
  <2>1. \E k : jobs' = [jobs EXCEPT ![i] = Released(jobs[i], k)]
    BY <1>5 DEF FailJob
  <2>2. PICK r : /\ jobs' = [jobs EXCEPT ![i] = r]
                 /\ r.lease_expires_at = NULL /\ r.max_retries = jobs[i].max_retries
    <3>1. \A k : /\ Released(jobs[i], k).lease_expires_at = NULL
                 /\ Released(jobs[i], k).max_retries = jobs[i].max_retries
      BY <1>2 DEF Released, Row
    <3> QED BY <2>1, <3>1
  <2>3. GoodRow(r, jobs[i].max_retries)
    BY <2>2 DEF GoodRow
  <2> QED BY <1>1, <2>2, <2>3, OneRowWritten
<1> QED BY <1>3, <1>4, <1>5 DEF Applied, i

LEMMA TickGood ==
    ASSUME Calm, StoreTypeOK, LeaseDiscipline, NoneLapsed, BackoffsFit, DispatchTick
    PROVE  NoneLapsed' /\ BackoffsFit'
<1>1. \A j \in Job : jobs'[j] = Aged(jobs[j]) /\ jobs[j] \in Row
  BY DEF DispatchTick, TickJobs, StoreTypeOK
<1>2. ASSUME NEW j \in Job
      PROVE  /\ jobs'[j].max_retries = jobs[j].max_retries
             /\ jobs'[j].lease_expires_at = NULL \/ jobs'[j].lease_expires_at >= 0
  <2> DEFINE r == jobs[j]
             l == r.lease_expires_at
  <2>1. /\ Aged(r).max_retries = r.max_retries
        /\ Aged(r).lease_expires_at = IF l = NULL THEN NULL ELSE Countdown(l, -1)
    BY <1>1 DEF Aged, Row
  <2>2. l # NULL => l > 0
    BY DEF Calm, DispatchTick, LeaseDiscipline
  <2>3. l # NULL => l \in Int
    BY <1>1, StoreAssumption DEF Row
  <2>4. l # NULL => Countdown(l, -1) >= 0
    BY <2>2, <2>3 DEF Countdown, Greatest
  <2> QED BY <1>1, <2>1, <2>4
<1> QED BY <1>2 DEF NoneLapsed, BackoffsFit

LEMMA RowsStayGood ==
    ASSUME Calm, DispatchInv, LeaseDiscipline, Wired, NoneLapsed, BackoffsFit,
           [DispatchNext]_dispatchVars
    PROVE  NoneLapsed' /\ BackoffsFit'
<1>0. StoreTypeOK /\ jobs \in [Job -> Row]
  BY DEF DispatchInv, StoreTypeOK
<1>1. ASSUME jobs' = jobs
      PROVE  NoneLapsed' /\ BackoffsFit'
  BY <1>1 DEF NoneLapsed, BackoffsFit
<1>2. ASSUME NEW s \in Stream, Answer(s)
      PROVE  NoneLapsed' /\ BackoffsFit'
  <2>1. Head(up[s]) \in Message
    BY <1>2, HeadMessage DEF Answer, DispatchInv
  <2>2. Applied(of[s], Head(up[s])) \/ jobs' = jobs
    BY <1>2 DEF Answer, Refused, storeVars
  <2> QED BY <1>0, <1>1, <2>1, <2>2, AppliedGood
<1>3. ASSUME NEW i \in Job, PushClaim(i)
      PROVE  NoneLapsed' /\ BackoffsFit'
  <2> DEFINE r == [jobs[i] EXCEPT !.state = "processing",
                                  !.worker_id = of[Head(waiters)],
                                  !.claim_term = Stamp(jobs[i].claim_term, Reign1),
                                  !.lease_expires_at = LeaseFor]
  <2>1. jobs' = [jobs EXCEPT ![i] = r]
    BY <1>3 DEF PushClaim, DequeueJob
  <2>2. r.lease_expires_at = LeaseFor /\ r.max_retries = jobs[i].max_retries
    BY <1>0 DEF Row
  <2> HIDE DEF r
  <2>3. GoodRow(r, jobs[i].max_retries)
    BY <2>2, StoreAssumption DEF GoodRow
  <2> QED BY <1>0, <2>1, <2>3, OneRowWritten
<1>4. ASSUME NEW i \in Job, Enqueue(i) \/ EnqueueUnpushed(i)
      PROVE  NoneLapsed' /\ BackoffsFit'
  <2>1. PICK status \in StatusIn, max \in MaxRetriesIn : CreateJob(i, status, max)
    BY <1>4 DEF Enqueue, EnqueueUnpushed
  <2> DEFINE r == [NewRow EXCEPT !.state = IF status = "unset" THEN "pending" ELSE status,
                                 !.max_retries = IF max = 0 THEN 3 ELSE max]
  <2>2. jobs' = [jobs EXCEPT ![i] = r]
    BY <2>1 DEF CreateJob
  <2>3. r.lease_expires_at = NULL /\ r.max_retries = FiledMax(max)
    BY DEF NewRow, FiledMax
  <2> HIDE DEF r
  <2>4. GoodRow(r, jobs[i].max_retries)
    BY <2>3 DEF GoodRow
  <2> QED BY <1>0, <2>2, <2>4, OneRowWritten
<1>5. CASE DispatchTick
  BY <1>0, <1>5, TickGood
<1>6. CASE \/ \E s \in Stream : Register(s) \/ Deliver(s)
           \/ Push("enqueue") \/ Push("timer") \/ PushDone \/ TimerFires
           \/ \E w \in Worker : WorkerStep(w)
           \/ \E w \in Worker, s \in Stream : Connect(w, s)
           \/ UNCHANGED dispatchVars
  <2>1. jobs' = jobs
    BY <1>6 DEF Register, Deliver, Push, PushDone, TimerFires, WorkerStep, Receive,
                Report, Beat, Connect, dispatchVars, storeVars
  <2> QED BY <1>1, <2>1
<1> QED BY <1>0, <1>2, <1>3, <1>4, <1>5, <1>6, CalmStep
-----------------------------------------------------------------------------
(* The steps.  A step moves one worker's cargo, or nobody's.               *)
Elsewhere(w, s) ==
    /\ conn' = conn /\ sending' = NULL
    /\ \A t \in Stream : pc'[t] = "unused" => pc[t] = "unused"
    /\ \A t \in Stream : t # s =>
          deliveries'[t] = deliveries[t] /\ down'[t] = down[t] /\ up'[t] = up[t]
    /\ \A v \in Worker : v # w => handlers'[v] = handlers[v] /\ SameFor(jobs, jobs', v)

LEMMA StreamOfWorker ==
    ASSUME Wired, NEW w \in Worker, NEW s \in Stream, conn[w] = s
    PROVE  /\ of[s] = w /\ pc[s] # "unused"
           /\ \A v \in Worker : conn[v] = s => v = w
BY StoreAssumption, DispatchAssumption DEF Wired

LEMMA WorkerOfStream ==
    ASSUME Wired, LineInv, NEW s \in Stream, pc[s] # "unused"
    PROVE  of[s] \in Worker /\ conn[of[s]] = s
BY DEF Wired, LineInv

LEMMA CargoMoved ==
    ASSUME Wired, CargoInv, NEW w \in Worker, NEW s \in Stream, conn[w] = s,
           Elsewhere(w, s),
           Agrees(jobs', w, deliveries'[s], down'[s], up'[s], handlers'[w])
    PROVE  CargoInv'
<1>0. /\ pc[s] # "unused" /\ s # NoStream
      /\ \A v \in Worker : conn[v] = s => v = w
  BY StreamOfWorker, DispatchAssumption
<1>1. sending' = NULL
  BY DEF Elsewhere
<1>2. \A t \in Stream : pc'[t] = "unused" =>
          deliveries'[t] = <<>> /\ down'[t] = <<>> /\ up'[t] = <<>>
  BY <1>0 DEF Elsewhere, CargoInv
<1>3. ASSUME NEW v \in Worker, conn'[v] = NoStream
      PROVE  HoldsNone(jobs', v) /\ handlers'[v] = {}
  <2>1. v # w /\ conn[v] = NoStream
    BY <1>0, <1>3 DEF Elsewhere
  <2>2. HoldsNone(jobs, v) /\ handlers[v] = {}
    BY <2>1 DEF CargoInv
  <2>3. SameFor(jobs, jobs', v) /\ handlers'[v] = handlers[v]
    BY <2>1 DEF Elsewhere
  <2> QED BY <2>2, <2>3 DEF HoldsNone, SameFor
<1>4. ASSUME NEW v \in Worker, NEW t \in Stream, conn'[v] = t
      PROVE  Agrees(jobs', v, deliveries'[t], down'[t], up'[t], handlers'[v])
  <2>0. conn[v] = t
    BY <1>4 DEF Elsewhere
  <2>1. CASE v = w
    BY <2>0, <2>1
  <2>2. CASE v # w
    <3>1. t # s
      BY <1>0, <2>0, <2>2
    <3>2. Agrees(jobs, v, deliveries[t], down[t], up[t], handlers[v])
      BY <2>0 DEF CargoInv
    <3>3. /\ deliveries'[t] = deliveries[t] /\ down'[t] = down[t] /\ up'[t] = up[t]
          /\ handlers'[v] = handlers[v] /\ SameFor(jobs, jobs', v)
      BY <2>2, <3>1 DEF Elsewhere
    <3>4. Agrees(jobs', v, deliveries[t], down[t], up[t], handlers[v])
      BY <3>2, <3>3, AgreesKept
    <3> QED BY <3>3, <3>4
  <2> QED BY <2>1, <2>2
<1> QED BY <1>1, <1>2, <1>3, <1>4 DEF CargoInv

LEMMA CargoKept ==
    ASSUME CargoInv, UNCHANGED <<conn, sending, deliveries, down, up, handlers>>,
           \A t \in Stream : pc'[t] = "unused" => pc[t] = "unused",
           \A v \in Worker : SameFor(jobs, jobs', v)
    PROVE  CargoInv'
<1>1. sending' = NULL
  BY DEF CargoInv
<1>2. \A t \in Stream : pc'[t] = "unused" =>
          deliveries'[t] = <<>> /\ down'[t] = <<>> /\ up'[t] = <<>>
  BY DEF CargoInv
<1>3. ASSUME NEW v \in Worker, conn'[v] = NoStream
      PROVE  HoldsNone(jobs', v) /\ handlers'[v] = {}
  <2>1. HoldsNone(jobs, v) /\ handlers'[v] = {}
    BY <1>3 DEF CargoInv
  <2> QED BY <2>1 DEF HoldsNone, SameFor
<1>4. ASSUME NEW v \in Worker, NEW t \in Stream, conn'[v] = t
      PROVE  Agrees(jobs', v, deliveries'[t], down'[t], up'[t], handlers'[v])
  <2>1. Agrees(jobs, v, deliveries[t], down[t], up[t], handlers[v])
    BY <1>4 DEF CargoInv
  <2>2. Agrees(jobs', v, deliveries[t], down[t], up[t], handlers[v])
    BY <2>1, AgreesKept
  <2> QED BY <2>2
<1> QED BY <1>1, <1>2, <1>3, <1>4 DEF CargoInv

LEMMA RestKept ==
    ASSUME RestInv, conn' = conn,
           \A t \in Stream : Rests(pc', mu', waiters', t) => Rests(pc, mu, waiters, t),
           \A i \in 1..Len(waiters') : ~Registers(pc', mu', waiters'[i]),
           \A v \in Worker : HoldsNone(jobs, v) => HoldsNone(jobs', v)
    PROVE  RestInv'
<1>1. ASSUME NEW v \in Worker, NEW t \in Stream, conn'[v] = t,
             Rests(pc', mu', waiters', t)
      PROVE  HoldsNone(jobs', v)
  <2>1. conn[v] = t /\ Rests(pc, mu, waiters, t)
    BY <1>1
  <2> QED BY <2>1 DEF RestInv
<1> QED BY <1>1 DEF RestInv

LEMMA SameHoldsNone ==
    ASSUME \A v \in Worker : SameFor(jobs, jobs', v)
    PROVE  \A v \in Worker : HoldsNone(jobs, v) => HoldsNone(jobs', v)
BY DEF HoldsNone, SameFor

(* The line and the table alone: Push, PushDone, the timer, the producers, *)
(* the clock and Register.                                                 *)
LEMMA LineStepsKeep ==
    ASSUME Wired, DispatchInv, CargoInv, RestInv,
           \/ Push("enqueue") \/ Push("timer") \/ TimerFires \/ PushDone
           \/ \E j \in Job : Enqueue(j) \/ EnqueueUnpushed(j)
           \/ DispatchTick
           \/ UNCHANGED dispatchVars
    PROVE  CargoInv' /\ RestInv'
<1>0. /\ "enqueue" \notin Stream /\ "timer" \notin Stream /\ "free" \notin Stream
      /\ waiters \in [1..Len(waiters) -> Stream]
      /\ StoreTypeOK /\ LineTyped /\ LineInv
  BY DispatchAssumption, LenProperties DEF DispatchInv, LineTyped
<1>1. UNCHANGED <<conn, sending, deliveries, down, up, handlers, waiters>>
  BY DEF Push, TimerFires, PushDone, Enqueue, EnqueueUnpushed, DispatchTick,
         dispatchVars, streamVars, lineVars, workerVars
<1>2. \A v \in Worker : SameFor(jobs, jobs', v)
  <2>1. CASE jobs' = jobs
    BY <2>1 DEF SameFor
  <2>2. ASSUME NEW j \in Job, Enqueue(j) \/ EnqueueUnpushed(j)
        PROVE  \A v \in Worker : SameFor(jobs, jobs', v)
    <3>1. PICK status \in StatusIn, max \in MaxRetriesIn : CreateJob(j, status, max)
      BY <2>2 DEF Enqueue, EnqueueUnpushed
    <3> QED BY <1>0, <3>1, FilingSame
  <2>3. CASE DispatchTick
    BY <1>0, <2>3, TickSame DEF DispatchTick
  <2> QED BY <2>1, <2>2, <2>3
          DEF Push, TimerFires, PushDone, dispatchVars, storeVars
<1>3. \A t \in Stream : /\ pc'[t] = "unused" => pc[t] = "unused"
                        /\ Registers(pc', mu', t) => Registers(pc, mu, t)
  <2>1. CASE Push("enqueue") \/ Push("timer")
    BY <1>0, <2>1 DEF Push, streamVars, Registers
  <2>2. CASE PushDone
    BY <2>2 DEF PushDone, Unlock, Registers
  <2>3. CASE UNCHANGED <<pc, mu>>
    BY <2>3 DEF Registers
  <2> QED BY <2>1, <2>2, <2>3 DEF TimerFires, Enqueue, EnqueueUnpushed, DispatchTick,
                                  dispatchVars, streamVars, lineVars
<1>4. CargoInv'
  BY <1>1, <1>2, <1>3, CargoKept
<1>5. RestInv'
  <2>1. \A t \in Stream : Rests(pc', mu', waiters', t) => Rests(pc, mu, waiters, t)
    BY <1>1, <1>3 DEF Rests
  <2>2. \A i \in 1..Len(waiters') : ~Registers(pc', mu', waiters'[i])
    BY <1>0, <1>1, <1>3 DEF RestInv
  <2>3. \A v \in Worker : HoldsNone(jobs, v) => HoldsNone(jobs', v)
    BY <1>2, SameHoldsNone
  <2> QED BY <1>1, <2>1, <2>2, <2>3, RestKept
<1> QED BY <1>4, <1>5

(* Register: a worker in line already has no handler about to register it. *)
LEMMA RegisterKeeps ==
    ASSUME Wired, DispatchInv, CargoInv, RestInv, NEW s \in Stream, Register(s)
    PROVE  CargoInv' /\ RestInv'
<1>0. /\ "free" \notin Stream /\ LineTyped /\ LineInv
      /\ waiters \in Seq(Stream) /\ waiters \in [1..Len(waiters) -> Stream]
  BY DispatchAssumption, LenProperties DEF DispatchInv, LineTyped
<1>1. /\ UNCHANGED <<conn, sending, deliveries, down, up, handlers, jobs>>
      /\ pc[s] = "register" /\ mu = "free"
  BY DEF Register, storeVars, workerVars
<1>2. Registers(pc, mu, s)
  BY <1>0, <1>1 DEF Registers
<1>3. ~InLine(of[s])
  <2>1. SUFFICES ASSUME NEW i \in 1..Len(waiters), of[waiters[i]] = of[s]
                 PROVE  FALSE
    BY DEF InLine
  <2>2. conn[of[waiters[i]]] = waiters[i] /\ conn[of[s]] = s
    BY <1>0, <1>1, WorkerOfStream DEF LineInv
  <2>3. waiters[i] = s
    BY <2>1, <2>2
  <2> QED BY <1>2, <2>3 DEF RestInv
<1>4. waiters' = Append(waiters, s) /\ mu' = s /\ pc' = pc
  BY <1>3 DEF Register
<1>5. /\ waiters'[Len(waiters')] = s
      /\ \A i \in 1..Len(waiters') : i # Len(waiters') =>
            i \in 1..Len(waiters) /\ waiters'[i] = waiters[i]
  BY <1>0, <1>4, LastPlaces
<1>6. \A v \in Worker : SameFor(jobs, jobs', v)
  BY <1>1 DEF SameFor
<1>7. CargoInv'
  BY <1>1, <1>4, <1>6, CargoKept
<1>8. RestInv'
  <2>1. ASSUME NEW t \in Stream, Rests(pc', mu', waiters', t)
        PROVE  Rests(pc, mu, waiters, t)
    <3>1. CASE t = s
      BY <1>2, <3>1 DEF Rests
    <3>2. CASE t # s
      <4>1. Registers(pc', mu', t) => Registers(pc, mu, t)
        BY <1>0, <1>1, <1>4 DEF Registers
      <4> QED BY <1>5, <2>1, <3>2, <4>1 DEF Rests
    <3> QED BY <3>1, <3>2
  <2>2. ASSUME NEW i \in 1..Len(waiters')
        PROVE  ~Registers(pc', mu', waiters'[i])
    <3>1. CASE i = Len(waiters')
      BY <1>4, <1>5, <3>1 DEF Registers
    <3>2. CASE i # Len(waiters')
      <4>1. /\ i \in 1..Len(waiters) /\ waiters'[i] = waiters[i]
            /\ waiters[i] \in Stream /\ ~Registers(pc, mu, waiters[i])
        BY <1>0, <1>5, <3>2 DEF RestInv
      <4>2. mu # waiters[i]
        BY <1>0, <1>1, <4>1
      <4> QED BY <1>4, <4>1, <4>2 DEF Registers
    <3> QED BY <3>1, <3>2
  <2>3. \A v \in Worker : HoldsNone(jobs, v) => HoldsNone(jobs', v)
    BY <1>1
  <2> QED BY <1>1, <2>1, <2>2, <2>3, RestKept
<1> QED BY <1>7, <1>8

(* Connect: a worker without a stream has nothing, and neither has a       *)
(* stream that nobody opened.                                              *)
LEMMA ConnectKeeps ==
    ASSUME Wired, DispatchInv, CargoInv, RestInv, NEW w \in Worker, NEW s \in Stream,
           Connect(w, s)
    PROVE  CargoInv' /\ RestInv'
<1>0. /\ LineTyped /\ LineInv /\ waiters \in [1..Len(waiters) -> Stream]
      /\ conn \in [Worker -> Stream \cup {NoStream, "dead"}] /\ NoStream \notin Stream
  BY DispatchAssumption, LenProperties DEF DispatchInv, LineTyped, FlowTyped, WorkersTyped
<1>1. /\ UNCHANGED <<sending, deliveries, down, up, handlers, jobs, waiters, mu>>
      /\ conn[w] = NoStream /\ pc[s] = "unused"
      /\ \A v \in Worker : conn'[v] = IF v = w THEN s ELSE conn[v]
      /\ \A t \in Stream : pc'[t] = IF t = s THEN "register" ELSE pc[t]
  BY <1>0 DEF Connect, lineVars, storeVars, LineTyped
<1>2. /\ HoldsNone(jobs, w) /\ handlers[w] = {}
      /\ deliveries[s] = <<>> /\ down[s] = <<>> /\ up[s] = <<>>
  BY <1>1 DEF CargoInv
<1>3. \A v \in Worker : conn[v] = s => FALSE
  BY <1>1, StreamOfWorker
<1>4. Agrees(jobs, w, deliveries[s], down[s], up[s], handlers[w])
  <2>1. Results(<<>>)
    BY DEF Results
  <2> QED BY <1>2, <2>1 DEF Agrees, Idle
<1>5. CargoInv'
  <2>1. /\ sending' = NULL
        /\ \A t \in Stream : pc'[t] = "unused" =>
              deliveries'[t] = <<>> /\ down'[t] = <<>> /\ up'[t] = <<>>
    BY <1>1 DEF CargoInv
  <2>2. \A v \in Worker : conn'[v] = NoStream => HoldsNone(jobs', v) /\ handlers'[v] = {}
    BY <1>0, <1>1 DEF CargoInv
  <2>3. \A v \in Worker, t \in Stream : conn'[v] = t =>
          Agrees(jobs', v, deliveries'[t], down'[t], up'[t], handlers'[v])
    BY <1>1, <1>4 DEF CargoInv
  <2> QED BY <2>1, <2>2, <2>3 DEF CargoInv
<1>6. RestInv'
  <2>1. \A i \in 1..Len(waiters) : waiters[i] \in Stream /\ waiters[i] # s
    BY <1>0, <1>1 DEF LineInv
  <2>2. \A i \in 1..Len(waiters') : ~Registers(pc', mu', waiters'[i])
    BY <1>1, <2>1 DEF RestInv, Registers
  <2>3. ASSUME NEW v \in Worker, NEW t \in Stream, conn'[v] = t,
               Rests(pc', mu', waiters', t)
        PROVE  HoldsNone(jobs', v)
    <3>1. CASE v = w
      BY <1>1, <1>2, <3>1
    <3>2. CASE v # w
      <4>1. conn[v] = t /\ t # s
        BY <1>1, <1>3, <2>3, <3>2
      <4>2. Rests(pc, mu, waiters, t)
        BY <1>1, <2>3, <4>1 DEF Rests, Registers
      <4> QED BY <1>1, <4>1, <4>2 DEF RestInv
    <3> QED BY <3>1, <3>2
  <2> QED BY <2>2, <2>3 DEF RestInv
<1> QED BY <1>5, <1>6

(* A claim goes to a worker at rest, whose channel is therefore empty.     *)
LEMMA ClaimKeeps ==
    ASSUME Wired, DispatchInv, CargoInv, RestInv, NEW j \in Job, PushClaim(j)
    PROVE  CargoInv' /\ RestInv'
<1> DEFINE s == Head(waiters)
           w == of[s]
           x == [job |-> j, attempt |-> jobs[j].retry_count + 1]
<1>0. /\ LineTyped /\ LineInv /\ StoreTypeOK /\ FlowTyped
      /\ waiters \in Seq(Stream) /\ waiters # <<>>
  BY DEF DispatchInv, LineTyped, PushClaim
<1>1. /\ s \in Stream /\ s = waiters[1] /\ 1 \in 1..Len(waiters) /\ w \in Worker
      /\ pc[s] # "unused"
  BY <1>0, HeadInLine
<1>2. DequeueJob(Reign1, w, j)
  BY DEF PushClaim
<1>3. /\ UNCHANGED <<mu, pc, of, up, down, conn, handlers>> /\ waiters' = Tail(waiters)
      /\ \/ deliveries[s] = <<>> /\ deliveries' = [deliveries EXCEPT ![s] = <<x>>]
            /\ sending' = sending
         \/ deliveries[s] # <<>>
  BY DEF PushClaim, workerVars
<1> HIDE DEF s, w, x
<1>4. conn[w] = s /\ \A v \in Worker : conn[v] = s => v = w
  BY <1>0, <1>1, WorkerOfStream, StreamOfWorker DEF w
<1>5. HoldsNone(jobs, w)
  BY <1>1, <1>4 DEF RestInv, Rests
<1>6. Idle(deliveries[s], down[s], up[s], handlers[w])
  BY <1>1, <1>4, <1>5, RestedIsIdle DEF CargoInv
<1>7. deliveries' = [deliveries EXCEPT ![s] = <<x>>] /\ sending' = NULL
  BY <1>3, <1>6 DEF Idle, CargoInv
<1>8. /\ \A v : v # w => SameFor(jobs, jobs', v)
      /\ HoldsOnly(jobs', w, x)
  BY <1>0, <1>2, <1>5, ClaimSame DEF x
<1>9. deliveries \in [Stream -> Seq(Work)]
  BY <1>0 DEF FlowTyped, ChannelsTyped
<1>10. CargoInv'
  <2>1. Elsewhere(w, s)
    BY <1>3, <1>7, <1>8, <1>9 DEF Elsewhere
  <2>2. Queued(x, deliveries'[s], down'[s], up'[s], handlers'[w])
    BY <1>1, <1>3, <1>6, <1>7, <1>9 DEF Idle, Queued
  <2>3. Agrees(jobs', w, deliveries'[s], down'[s], up'[s], handlers'[w])
    BY <1>8, <2>2 DEF Agrees, Stage
  <2> QED BY <1>1, <1>4, <2>1, <2>3, CargoMoved
<1>11. RestInv'
  <2>1. \A i \in 1..Len(waiters') : i + 1 \in 1..Len(waiters) /\ waiters'[i] = waiters[i + 1]
    BY <1>0, <1>3, TailPlaces
  <2>2. ASSUME NEW i \in 1..Len(waiters')
        PROVE  waiters'[i] # s
    <3>1. i + 1 # 1
      OBVIOUS
    <3> QED BY <1>1, <2>1, <3>1 DEF LineInv, DispatchInv
  <2>3. \A i \in 1..Len(waiters') : ~Registers(pc', mu', waiters'[i])
    BY <1>3, <2>1 DEF RestInv
  <2>4. ASSUME NEW v \in Worker, NEW t \in Stream, conn'[v] = t,
               Rests(pc', mu', waiters', t)
        PROVE  HoldsNone(jobs', v)
    <3>1. t # s
      <4>1. ~Registers(pc, mu, s)
        BY <1>1 DEF RestInv
      <4> QED BY <1>3, <2>2, <2>4, <4>1 DEF Rests
    <3>2. conn[v] = t /\ v # w
      BY <1>3, <1>4, <2>4, <3>1
    <3>3. Rests(pc, mu, waiters, t)
      BY <1>3, <2>1, <2>4 DEF Rests
    <3>4. HoldsNone(jobs, v) /\ SameFor(jobs, jobs', v)
      BY <1>8, <3>2, <3>3 DEF RestInv
    <3> QED BY <3>4 DEF HoldsNone, SameFor
  <2> QED BY <2>3, <2>4 DEF RestInv
<1> QED BY <1>10, <1>11

(* The steps of streams and workers leave the line and the table alone.    *)
LEMMA RestUntouched ==
    ASSUME RestInv, UNCHANGED <<pc, mu, waiters, jobs, conn>>
    PROVE  RestInv'
BY DEF RestInv

LEMMA DeliverKeeps ==
    ASSUME Wired, DispatchInv, CargoInv, RestInv, NEW s \in Stream, Deliver(s)
    PROVE  CargoInv' /\ RestInv'
<1> DEFINE w == of[s]
           y == Head(deliveries[s])
           m == [type |-> "assigned", job |-> y.job, attempt |-> y.attempt]
<1>0. /\ FlowTyped /\ LineInv
      /\ deliveries \in [Stream -> Seq(Work)] /\ down \in [Stream -> Seq(Message)]
  BY DEF DispatchInv, FlowTyped, ChannelsTyped, WiresTyped
<1>1. /\ pc[s] = "select" /\ deliveries[s] # <<>> /\ broken[s] = FALSE /\ sending = NULL
      /\ UNCHANGED <<pc, mu, waiters, jobs, conn, up, handlers>>
      /\ deliveries' = [deliveries EXCEPT ![s] = <<>>] /\ sending' = NULL
  BY DEF Deliver, Wired, CargoInv, storeVars, workerVars
<1>2. down' = [down EXCEPT ![s] = down[s] \o <<m>>]
  BY <1>1 DEF Deliver, SendDown
<1>3. w \in Worker /\ conn[w] = s
  BY <1>0, <1>1, WorkerOfStream
<1> HIDE DEF w
<1>4. Agrees(jobs, w, deliveries[s], down[s], up[s], handlers[w])
  BY <1>3 DEF CargoInv
<1>5. PICK x : /\ HoldsOnly(jobs, w, x)
               /\ Queued(x, deliveries[s], down[s], up[s], handlers[w])
  BY <1>1, <1>4 DEF Agrees, Stage, Idle, Assigned, Working, Reported
<1>6. x \in Work /\ y = x
  BY <1>5 DEF HoldsOnly, Queued
<1>7. m \in Message /\ m.type = "assigned" /\ Works(m) = x
  BY <1>6, WorksOfWork DEF Message, Work, Works
<1> HIDE DEF m, y
<1>8. Assigned(x, <<>>, down[s] \o <<m>>, up[s], handlers[w])
  BY <1>0, <1>5, <1>7, QueuedToAssigned
<1>9. deliveries'[s] = <<>> /\ down'[s] = down[s] \o <<m>> /\ up'[s] = up[s]
      /\ handlers'[w] = handlers[w]
  BY <1>0, <1>1, <1>2
<1>10. Agrees(jobs', w, deliveries'[s], down'[s], up'[s], handlers'[w])
  <2>1. Assigned(x, deliveries'[s], down'[s], up'[s], handlers'[w])
    BY <1>8, <1>9
  <2>2. HoldsOnly(jobs', w, x)
    BY <1>1, <1>5
  <2> QED BY <2>1, <2>2 DEF Agrees, Stage
<1>11. Elsewhere(w, s)
  <2>1. \A v \in Worker : SameFor(jobs, jobs', v)
    BY <1>1 DEF SameFor
  <2> QED BY <1>0, <1>1, <1>2, <2>1 DEF Elsewhere
<1> QED BY <1>1, <1>3, <1>10, <1>11, CargoMoved, RestUntouched

(* What a worker can find at the head of its stream, and what becomes of   *)
(* its stage as it reads it.                                               *)
LEMMA ReadDown ==
    ASSUME NEW t, NEW w, NEW d, NEW n \in Seq(Message), NEW u, NEW h, n # <<>>,
           Agrees(t, w, d, n, u, h)
    PROVE  \/ Head(n).type = "result" /\ Agrees(t, w, d, Tail(n), u, h)
           \/ /\ Head(n).type = "assigned"
              /\ \A g \in Handler : g.live /\ Works(g) = Works(Head(n))
                    => Agrees(t, w, d, Tail(n), u, h \cup {g})
<1>1. ASSUME Results(n)
      PROVE  Head(n).type = "result" /\ Results(Tail(n))
  BY <1>1, ResultsTaken
<1>2. CASE HoldsNone(t, w) /\ Idle(d, n, u, h)
  BY <1>1, <1>2 DEF Agrees, Idle
<1>3. ASSUME NEW x, HoldsOnly(t, w, x), Stage(x, d, n, u, h)
      PROVE  \/ Head(n).type = "result" /\ Agrees(t, w, d, Tail(n), u, h)
             \/ /\ Head(n).type = "assigned"
                /\ \A g \in Handler : g.live /\ Works(g) = Works(Head(n))
                      => Agrees(t, w, d, Tail(n), u, h \cup {g})
  <2>1. CASE Queued(x, d, n, u, h)
    <3>1. Head(n).type = "result" /\ Queued(x, d, Tail(n), u, h)
      BY <1>1, <2>1 DEF Queued
    <3> QED BY <1>3, <3>1 DEF Agrees, Stage
  <2>2. CASE Working(x, d, n, u, h)
    <3>1. Head(n).type = "result" /\ Working(x, d, Tail(n), u, h)
      BY <1>1, <2>2 DEF Working
    <3> QED BY <1>3, <3>1 DEF Agrees, Stage
  <2>3. CASE Reported(x, d, n, u, h)
    <3>1. Head(n).type = "result" /\ Reported(x, d, Tail(n), u, h)
      BY <1>1, <2>3 DEF Reported
    <3> QED BY <1>3, <3>1 DEF Agrees, Stage
  <2>4. CASE Assigned(x, d, n, u, h)
    <3>1. CASE /\ Head(n).type = "assigned" /\ Works(Head(n)) = x
               /\ d = <<>> /\ u = <<>> /\ h = {} /\ Results(Tail(n))
      <4>1. ASSUME NEW g \in Handler, g.live, Works(g) = Works(Head(n))
            PROVE  Agrees(t, w, d, Tail(n), u, h \cup {g})
        <5>1. Beats(<<>>, x)
          BY DEF Beats
        <5>2. h \cup {g} = {g}
          BY <3>1
        <5>3. Working(x, d, Tail(n), u, {g})
          BY <3>1, <4>1, <5>1 DEF Working
        <5> QED BY <1>3, <5>2, <5>3 DEF Agrees, Stage
      <4> QED BY <3>1, <4>1
    <3>2. CASE Head(n).type = "result" /\ Assigned(x, d, Tail(n), u, h)
      BY <1>3, <3>2 DEF Agrees, Stage
    <3> QED BY <2>4, <3>1, <3>2, AssignedTaken
  <2> QED BY <1>3, <2>1, <2>2, <2>3, <2>4 DEF Stage
<1> QED BY <1>2, <1>3 DEF Agrees

LEMMA ReceiveKeeps ==
    ASSUME Wired, DispatchInv, CargoInv, RestInv, NEW w \in Worker, Receive(w)
    PROVE  CargoInv' /\ RestInv'
<1> DEFINE s == conn[w]
           m == Head(down[s])
           g == [job |-> m.job, attempt |-> m.attempt, live |-> TRUE, beating |-> TRUE]
<1>0. /\ down \in [Stream -> Seq(Message)] /\ handlers \in [Worker -> SUBSET Handler]
  BY DEF DispatchInv, FlowTyped, WiresTyped, WorkersTyped
<1>1. /\ s \in Stream /\ down[s] # <<>> /\ down' = [down EXCEPT ![s] = Tail(down[s])]
      /\ UNCHANGED <<pc, mu, waiters, sending, jobs, conn, up, deliveries>>
  BY DEF Receive, lineVars, storeVars
<1>2. /\ m.type = "assigned" => handlers' = [handlers EXCEPT ![w] = handlers[w] \cup {g}]
      /\ m.type = "result" => handlers' = handlers
  BY DEF Receive
<1>3. Agrees(jobs, w, deliveries[s], down[s], up[s], handlers[w])
  BY <1>1 DEF CargoInv
<1>4. m \in Message
  BY <1>0, <1>1, TailPlaces
<1>5. g \in Handler /\ g.live /\ Works(g) = Works(m)
  BY <1>4 DEF Message, Handler, Works
<1>6. \/ m.type = "result" /\ Agrees(jobs, w, deliveries[s], Tail(down[s]), up[s], handlers[w])
      \/ /\ m.type = "assigned"
         /\ \A e \in Handler : e.live /\ Works(e) = Works(m)
               => Agrees(jobs, w, deliveries[s], Tail(down[s]), up[s], handlers[w] \cup {e})
  BY <1>0, <1>1, <1>3, ReadDown
<1> HIDE DEF g, m, s
<1>7. down'[s] = Tail(down[s])
  BY <1>0, <1>1
<1>8. Agrees(jobs', w, deliveries'[s], down'[s], up'[s], handlers'[w])
  <2>1. CASE m.type = "result"
    <3>1. Agrees(jobs, w, deliveries[s], Tail(down[s]), up[s], handlers[w])
      BY <1>6, <2>1
    <3> QED BY <1>1, <1>2, <1>7, <2>1, <3>1
  <2>2. CASE m.type = "assigned"
    <3>1. Agrees(jobs, w, deliveries[s], Tail(down[s]), up[s], handlers[w] \cup {g})
      BY <1>5, <1>6, <2>2
    <3>2. handlers'[w] = handlers[w] \cup {g}
      BY <1>0, <1>2, <2>2
    <3> QED BY <1>1, <1>7, <3>1, <3>2
  <2> QED BY <1>6, <2>1, <2>2
<1>9. Elsewhere(w, s)
  <2>1. \A v \in Worker : SameFor(jobs, jobs', v)
    BY <1>1 DEF SameFor
  <2>2. \A v \in Worker : v # w => handlers'[v] = handlers[v]
    BY <1>0, <1>2, <1>6
  <2>3. sending' = NULL
    BY <1>1 DEF CargoInv
  <2> QED BY <1>0, <1>1, <2>1, <2>2, <2>3 DEF Elsewhere
<1> QED BY <1>1, <1>8, <1>9, CargoMoved, RestUntouched DEF s

(* Whatever a handler sends goes up the worker's one stream.               *)
Said == Verdict \cup {"beat"}
LEMMA HandlerSends ==
    ASSUME Wired, DispatchInv, CargoInv, NEW w \in Worker, NEW h \in handlers[w],
           NEW type \in Said, SendUp(w, type, h)
    PROVE  /\ conn[w] \in Stream /\ CanSend(w)
           /\ h \in Handler
           /\ up' = [up EXCEPT ![conn[w]] = Append(up[conn[w]],
                        [type |-> type, job |-> h.job, attempt |-> h.attempt])]
           /\ [type |-> type, job |-> h.job, attempt |-> h.attempt] \in Message
           /\ Works([type |-> type, job |-> h.job, attempt |-> h.attempt]) = Works(h)
           /\ \E x : /\ HoldsOnly(jobs, w, x)
                     /\ Working(x, deliveries[conn[w]], down[conn[w]], up[conn[w]],
                                handlers[w])
<1>1. h \in Handler
  BY DEF DispatchInv, FlowTyped, WorkersTyped
<1>2. conn[w] \in Stream
  BY DEF Wired, CargoInv
<1>3. CanSend(w)
  BY <1>2 DEF CanSend, Wired
<1>4. Agrees(jobs, w, deliveries[conn[w]], down[conn[w]], up[conn[w]], handlers[w])
  BY <1>2 DEF CargoInv
<1>5. \E x : /\ HoldsOnly(jobs, w, x)
             /\ Working(x, deliveries[conn[w]], down[conn[w]], up[conn[w]], handlers[w])
  BY <1>4 DEF Agrees, Stage, Idle, Queued, Assigned, Reported
<1>6. /\ [type |-> type, job |-> h.job, attempt |-> h.attempt] \in Message
      /\ Works([type |-> type, job |-> h.job, attempt |-> h.attempt]) = Works(h)
  BY <1>1 DEF Message, Handler, Works, Said, Verdict
<1>7. up' = [up EXCEPT ![conn[w]] = Append(up[conn[w]],
                [type |-> type, job |-> h.job, attempt |-> h.attempt])]
  BY <1>3 DEF SendUp
<1> QED BY <1>1, <1>2, <1>3, <1>5, <1>6, <1>7

LEMMA BeatKeeps ==
    ASSUME Wired, DispatchInv, CargoInv, RestInv, NEW w \in Worker,
           NEW h \in handlers[w], Beat(w, h)
    PROVE  CargoInv' /\ RestInv'
<1> DEFINE s == conn[w]
           m == [type |-> "beat", job |-> h.job, attempt |-> h.attempt]
           g == [h EXCEPT !.beating = CanSend(w)]
<1>0. /\ up \in [Stream -> Seq(Message)] /\ handlers \in [Worker -> SUBSET Handler]
  BY DEF DispatchInv, FlowTyped, WiresTyped, WorkersTyped
<1>1. /\ SendUp(w, "beat", h)
      /\ UNCHANGED <<pc, mu, waiters, sending, jobs, conn, down, deliveries>>
  BY DEF Beat, lineVars, storeVars
<1>2. /\ s \in Stream /\ CanSend(w) /\ h \in Handler
      /\ up' = [up EXCEPT ![s] = Append(up[s], m)]
      /\ m \in Message /\ Works(m) = Works(h)
      /\ \E x : /\ HoldsOnly(jobs, w, x)
                /\ Working(x, deliveries[s], down[s], up[s], handlers[w])
  BY <1>1, HandlerSends DEF Said
<1>3. PICK x : /\ HoldsOnly(jobs, w, x)
               /\ Working(x, deliveries[s], down[s], up[s], handlers[w])
  BY <1>2
<1>4. h.live
  BY <1>3 DEF Working
<1>5. handlers' = [handlers EXCEPT ![w] = (handlers[w] \ {h}) \cup {g}]
  BY <1>4 DEF Beat
<1>6. m.type = "beat"
  OBVIOUS
<1>7. g \in Handler /\ g.live /\ Works(g) = Works(h)
  <2>1. CanSend(w) = TRUE
    BY <1>2 DEF CanSend
  <2> QED BY <1>2, <1>4, <2>1 DEF Handler, Works
<1> HIDE DEF s, m, g
<1>8. Working(x, deliveries[s], down[s], Append(up[s], m), (handlers[w] \ {h}) \cup {g})
  BY <1>0, <1>2, <1>3, <1>6, <1>7, WorkingBeats
<1>9. up'[s] = Append(up[s], m) /\ handlers'[w] = (handlers[w] \ {h}) \cup {g}
  BY <1>0, <1>2, <1>5
<1>10. Agrees(jobs', w, deliveries'[s], down'[s], up'[s], handlers'[w])
  <2>1. Working(x, deliveries'[s], down'[s], up'[s], handlers'[w])
    BY <1>1, <1>8, <1>9
  <2>2. HoldsOnly(jobs', w, x)
    BY <1>1, <1>3
  <2> QED BY <2>1, <2>2 DEF Agrees, Stage
<1>11. Elsewhere(w, s)
  <2>1. \A v \in Worker : SameFor(jobs, jobs', v)
    BY <1>1 DEF SameFor
  <2>2. sending' = NULL
    BY <1>1 DEF CargoInv
  <2> QED BY <1>0, <1>1, <1>2, <1>5, <2>1, <2>2 DEF Elsewhere
<1> QED BY <1>1, <1>2, <1>10, <1>11, CargoMoved, RestUntouched DEF s

LEMMA ReportKeeps ==
    ASSUME ~LateBeats, Wired, DispatchInv, CargoInv, RestInv, NEW w \in Worker,
           NEW h \in handlers[w], NEW verdict \in Verdict, Report(w, h, verdict)
    PROVE  CargoInv' /\ RestInv'
<1> DEFINE s == conn[w]
           m == [type |-> verdict, job |-> h.job, attempt |-> h.attempt]
<1>0. /\ up \in [Stream -> Seq(Message)] /\ handlers \in [Worker -> SUBSET Handler]
  BY DEF DispatchInv, FlowTyped, WiresTyped, WorkersTyped
<1>1. /\ SendUp(w, verdict, h)
      /\ UNCHANGED <<pc, mu, waiters, sending, jobs, conn, down, deliveries>>
  BY DEF Report, lineVars, storeVars
<1>2. verdict \in Said
  BY DEF Said
<1>3. /\ s \in Stream
      /\ up' = [up EXCEPT ![s] = Append(up[s], m)]
      /\ m \in Message /\ Works(m) = Works(h)
      /\ \E x : /\ HoldsOnly(jobs, w, x)
                /\ Working(x, deliveries[s], down[s], up[s], handlers[w])
  BY <1>1, <1>2, HandlerSends
<1>4. PICK x : /\ HoldsOnly(jobs, w, x)
               /\ Working(x, deliveries[s], down[s], up[s], handlers[w])
  BY <1>3
<1>5. handlers' = [handlers EXCEPT ![w] = handlers[w] \ {h}]
  BY DEF Report, Stopped
<1>6. m.type \in Verdict
  OBVIOUS
<1> HIDE DEF s, m
<1>7. Reported(x, deliveries[s], down[s], Append(up[s], m), handlers[w] \ {h})
  BY <1>0, <1>3, <1>4, <1>6, WorkingReports
<1>8. up'[s] = Append(up[s], m) /\ handlers'[w] = handlers[w] \ {h}
  BY <1>0, <1>3, <1>5
<1>9. Agrees(jobs', w, deliveries'[s], down'[s], up'[s], handlers'[w])
  <2>1. Reported(x, deliveries'[s], down'[s], up'[s], handlers'[w])
    BY <1>1, <1>7, <1>8
  <2>2. HoldsOnly(jobs', w, x)
    BY <1>1, <1>4
  <2> QED BY <2>1, <2>2 DEF Agrees, Stage
<1>10. Elsewhere(w, s)
  <2>1. \A v \in Worker : SameFor(jobs, jobs', v)
    BY <1>1 DEF SameFor
  <2>2. sending' = NULL
    BY <1>1 DEF CargoInv
  <2> QED BY <1>0, <1>1, <1>3, <1>5, <2>1, <2>2 DEF Elsewhere
<1> QED BY <1>1, <1>3, <1>9, <1>10, CargoMoved, RestUntouched DEF s

(* What the server takes off a stream is about the attempt its worker      *)
(* holds, and is therefore applied.                                        *)
LEMMA AnswerApplies ==
    ASSUME Wired, DispatchInv, BackoffsFit, CargoInv, NEW s \in Stream, Answer(s)
    PROVE  /\ of[s] \in Worker /\ conn[of[s]] = s /\ up[s] \in Seq(Message)
           /\ up[s] # <<>> /\ Head(up[s]) \in Message
           /\ Applied(of[s], Head(up[s]))
           /\ Replied(s, Reply(Head(up[s]), TRUE), Frees(Head(up[s]), TRUE))
           /\ \E x : /\ HoldsOnly(jobs, of[s], x) /\ Works(Head(up[s])) = x
                     /\ Stage(x, deliveries[s], down[s], up[s], handlers[of[s]])
<1> DEFINE w == of[s]
           m == Head(up[s])
<1>0. LineInv /\ FlowTyped /\ StoreTypeOK /\ up[s] \in Seq(Message)
  BY DEF DispatchInv, FlowTyped, WiresTyped
<1>1. pc[s] = "select" /\ up[s] # <<>>
  BY DEF Answer
<1>2. w \in Worker /\ conn[w] = s
  BY <1>0, <1>1, WorkerOfStream
<1>3. m \in Message
  BY <1>0, <1>1, HeadMessage
<1>4. \/ Applied(w, m) /\ Replied(s, Reply(m, TRUE), Frees(m, TRUE))
      \/ Refused(w, m)
  BY DEF Answer
<1>5. Agrees(jobs, w, deliveries[s], down[s], up[s], handlers[w])
  BY <1>2 DEF CargoInv
<1>6. PICK x : HoldsOnly(jobs, w, x) /\ Stage(x, deliveries[s], down[s], up[s], handlers[w])
  BY <1>1, <1>5 DEF Agrees, Idle
<1>7. Works(m) = x
  BY <1>0, <1>1, <1>6, SaidOfAttempt
<1>8. x.job = m.job
  BY <1>7 DEF Works
<1>9. Owns(w, m.job)
  BY <1>6, <1>8 DEF HoldsOnly, Holds, Owns
<1> HIDE DEF w, m
<1>10. ~Refused(w, m)
  BY <1>0, <1>3, <1>9, HolderNotRefused
<1> QED BY <1>0, <1>1, <1>2, <1>3, <1>4, <1>6, <1>7, <1>10 DEF w, m

LEMMA AnswerKeeps ==
    ASSUME Wired, DispatchInv, BackoffsFit, CargoInv, RestInv, NEW s \in Stream, Answer(s)
    PROVE  CargoInv' /\ RestInv'
<1> DEFINE w == of[s]
           m == Head(up[s])
<1>0. /\ StoreTypeOK /\ LineTyped /\ LineInv /\ pc \in [Stream -> PcState]
      /\ waiters \in [1..Len(waiters) -> Stream]
      /\ up \in [Stream -> Seq(Message)] /\ down \in [Stream -> Seq(Message)]
  BY LenProperties DEF DispatchInv, FlowTyped, WiresTyped, LineTyped
<1>1. /\ pc[s] = "select" /\ broken[s] = FALSE
      /\ up' = [up EXCEPT ![s] = Tail(up[s])]
      /\ UNCHANGED <<mu, waiters, sending, conn, deliveries, handlers>>
  BY DEF Answer, Wired, lineVars, workerVars
<1>2. /\ w \in Worker /\ conn[w] = s /\ up[s] \in Seq(Message)
      /\ up[s] # <<>> /\ m \in Message
      /\ Applied(w, m) /\ Replied(s, Reply(m, TRUE), Frees(m, TRUE))
      /\ \E x : /\ HoldsOnly(jobs, w, x) /\ Works(m) = x
                /\ Stage(x, deliveries[s], down[s], up[s], handlers[w])
  BY AnswerApplies
<1>3. PICK x : /\ HoldsOnly(jobs, w, x) /\ Works(m) = x
               /\ Stage(x, deliveries[s], down[s], up[s], handlers[w])
  BY <1>2
<1>4. /\ pc' = [pc EXCEPT ![s] = IF Frees(m, TRUE) THEN "register" ELSE "select"]
      /\ down' = [down EXCEPT ![s] = down[s] \o Reply(m, TRUE)]
  BY <1>1, <1>2 DEF Replied, SendDown
<1>5. \/ m.type = "beat" /\ Stage(x, deliveries[s], down[s], Tail(up[s]), handlers[w])
      \/ m.type \in Verdict /\ Idle(deliveries[s], down[s], Tail(up[s]), handlers[w])
  BY <1>2, <1>3, SaidOfAttempt
<1>6. m.job \in Job
  BY <1>2 DEF Message
<1> HIDE DEF w, m
<1>7. sending' = NULL /\ up'[s] = Tail(up[s]) /\ down'[s] = down[s] \o Reply(m, TRUE)
  BY <1>0, <1>1, <1>4 DEF CargoInv
<1>8. \A t \in Stream : t # s => up'[t] = up[t] /\ down'[t] = down[t] /\ pc'[t] = pc[t]
  BY <1>0, <1>1, <1>4
<1>9. pc'[s] = IF Frees(m, TRUE) THEN "register" ELSE "select"
  BY <1>0, <1>4
<1>10. CASE m.type = "beat"
  <2>1. HeartbeatJob(w, m.job)
    BY <1>2, <1>10 DEF Applied
  <2>2. \A v \in Worker : SameFor(jobs, jobs', v)
    BY <1>0, <1>6, <2>1, BeatSame
  <2>3. Reply(m, TRUE) = <<>> /\ ~Frees(m, TRUE)
    BY <1>10 DEF Reply, Frees
  <2>4. down'[s] = down[s]
    BY <1>0, <1>7, <2>3, ConcatEmptySeq
  <2>5. \A t \in Stream : pc'[t] = pc[t]
    BY <1>1, <1>8, <1>9, <2>3
  <2>6. HoldsOnly(jobs', w, x)
    <3>1. x.job \in Job
      BY <1>3 DEF HoldsOnly, Work
    <3> QED BY <1>2, <1>3, <2>2, <3>1 DEF HoldsOnly, SameFor
  <2>7. Stage(x, deliveries[s], down[s], Tail(up[s]), handlers[w])
    BY <1>5, <1>10 DEF Verdict
  <2>8. Agrees(jobs', w, deliveries'[s], down'[s], up'[s], handlers'[w])
    BY <1>1, <1>7, <2>4, <2>6, <2>7 DEF Agrees
  <2>9. Elsewhere(w, s)
    BY <1>1, <1>7, <1>8, <2>2, <2>5 DEF Elsewhere
  <2>10. CargoInv'
    BY <1>2, <2>8, <2>9, CargoMoved
  <2>11. \A t \in Stream : Registers(pc', mu', t) = Registers(pc, mu, t)
    BY <1>1, <2>5 DEF Registers
  <2>12. \A t \in Stream : Rests(pc', mu', waiters', t) => Rests(pc, mu, waiters, t)
    BY <1>1, <2>11 DEF Rests
  <2>13. \A i \in 1..Len(waiters') : ~Registers(pc', mu', waiters'[i])
    BY <1>0, <1>1, <2>11 DEF RestInv
  <2>14. RestInv'
    BY <1>1, <2>2, <2>12, <2>13, RestKept, SameHoldsNone
  <2> QED BY <2>10, <2>14
<1>11. CASE m.type \in Verdict
  <2>1. m.type # "beat"
    BY <1>11 DEF Verdict
  <2>2. Complete(w, m.job) \/ FailJob(w, m.job)
    BY <1>2, <2>1 DEF Applied
  <2>3. /\ \A v \in Worker : v # w => SameFor(jobs, jobs', v)
        /\ HoldsNone(jobs', w)
    BY <1>0, <1>2, <1>3, <1>6, <2>2, ReportSame
  <2> DEFINE r == [type |-> "result", job |-> m.job, attempt |-> m.attempt]
  <2>4. Reply(m, TRUE) = <<r>> /\ Frees(m, TRUE)
    BY <2>1 DEF Reply, Frees
  <2>5. r \in Message /\ r.type = "result"
    BY <1>2 DEF Message
  <2> HIDE DEF r
  <2>6. Idle(deliveries[s], down[s], Tail(up[s]), handlers[w])
    BY <1>5, <2>1
  <2>7. Results(down'[s])
    <3>1. Results(down[s]) /\ down[s] \in Seq(Message)
      BY <1>0, <2>6 DEF Idle
    <3> QED BY <1>7, <2>4, <2>5, <3>1, ResultsSent
  <2>8. Idle(deliveries'[s], down'[s], up'[s], handlers'[w])
    BY <1>1, <1>7, <2>6, <2>7 DEF Idle
  <2>9. Agrees(jobs', w, deliveries'[s], down'[s], up'[s], handlers'[w])
    BY <2>3, <2>8 DEF Agrees
  <2>10. Elsewhere(w, s)
    BY <1>1, <1>7, <1>8, <1>9, <2>3, <2>4 DEF Elsewhere
  <2>11. CargoInv'
    BY <1>2, <2>9, <2>10, CargoMoved
  <2>12. \A i \in 1..Len(waiters) : waiters[i] # s
    <3>1. ~HoldsNone(jobs, w)
      BY <1>3 DEF HoldsNone, HoldsOnly, Work
    <3> QED BY <1>2, <3>1 DEF RestInv, Rests
  <2>13. \A i \in 1..Len(waiters') : ~Registers(pc', mu', waiters'[i])
    BY <1>0, <1>1, <1>8, <2>12 DEF RestInv, Registers
  <2>14. ASSUME NEW v \in Worker, NEW t \in Stream, conn'[v] = t,
                Rests(pc', mu', waiters', t)
         PROVE  HoldsNone(jobs', v)
    <3>1. CASE v = w
      BY <2>3, <3>1
    <3>2. CASE v # w
      <4>1. conn[v] = t /\ t # s
        BY <1>1, <1>2, <2>14, <3>2, StreamOfWorker
      <4>2. Rests(pc, mu, waiters, t)
        BY <1>1, <1>8, <2>14, <4>1 DEF Rests, Registers
      <4>3. HoldsNone(jobs, v) /\ SameFor(jobs, jobs', v)
        BY <2>3, <3>2, <4>1, <4>2 DEF RestInv
      <4> QED BY <4>3 DEF HoldsNone, SameFor
    <3> QED BY <3>1, <3>2
  <2>15. RestInv'
    BY <2>13, <2>14 DEF RestInv
  <2> QED BY <2>11, <2>15
<1> QED BY <1>5, <1>10, <1>11
-----------------------------------------------------------------------------
(* The results.                                                            *)

LEMMA SteadyInit ==
    ASSUME DispatchInit
    PROVE  SteadyInv
<1>1. Wired
  BY DispatchAssumption DEF DispatchInit, Wired
<1>2. NoneLapsed /\ BackoffsFit
  BY InitRows DEF DispatchInit, NoneLapsed, BackoffsFit
<1>3. \A w \in Worker : HoldsNone(jobs, w)
  BY InitRows DEF DispatchInit, HoldsNone, Holds
<1>4. CargoInv
  BY <1>3, DispatchAssumption DEF DispatchInit, CargoInv
<1>5. RestInv
  BY <1>3 DEF DispatchInit, RestInv
<1> QED BY <1>1, <1>2, <1>4, <1>5 DEF SteadyInv

LEMMA SteadyInductive ==
    ASSUME Calm, ~LateBeats, DispatchInv, LeaseDiscipline, SteadyInv, [DispatchNext]_dispatchVars
    PROVE  SteadyInv'
<1>0. Wired /\ NoneLapsed /\ BackoffsFit /\ CargoInv /\ RestInv
  BY DEF SteadyInv
<1>1. Wired' /\ NoneLapsed' /\ BackoffsFit'
  BY <1>0, WiredInductive, RowsStayGood
<1>2. CargoInv' /\ RestInv'
  <2>1. ASSUME NEW w \in Worker, WorkerStep(w)
        PROVE  CargoInv' /\ RestInv'
    <3>1. CASE Receive(w)
      BY <1>0, <3>1, ReceiveKeeps
    <3>2. ASSUME NEW h \in handlers[w], Report(w, h, "completed") \/ Report(w, h, "failed")
          PROVE  CargoInv' /\ RestInv'
      BY <1>0, <3>2, ReportKeeps DEF Verdict
    <3>3. ASSUME NEW h \in handlers[w], Beat(w, h)
          PROVE  CargoInv' /\ RestInv'
      BY <1>0, <3>3, BeatKeeps
    <3> QED BY <2>1, <3>1, <3>2, <3>3 DEF WorkerStep
  <2>2. ASSUME NEW s \in Stream, Register(s) \/ Deliver(s) \/ Answer(s)
        PROVE  CargoInv' /\ RestInv'
    BY <1>0, <2>2, RegisterKeeps, DeliverKeeps, AnswerKeeps
  <2>3. ASSUME NEW j \in Job, PushClaim(j)
        PROVE  CargoInv' /\ RestInv'
    BY <1>0, <2>3, ClaimKeeps
  <2>4. ASSUME NEW w \in Worker, NEW s \in Stream, Connect(w, s)
        PROVE  CargoInv' /\ RestInv'
    BY <1>0, <2>4, ConnectKeeps
  <2>5. CASE \/ Push("enqueue") \/ Push("timer") \/ TimerFires \/ PushDone
             \/ \E j \in Job : Enqueue(j) \/ EnqueueUnpushed(j)
             \/ DispatchTick
             \/ UNCHANGED dispatchVars
    BY <1>0, <2>5, LineStepsKeep
  <2> QED BY <1>0, <2>1, <2>2, <2>3, <2>4, <2>5, CalmStep DEF DispatchInv
<1> QED BY <1>1, <1>2 DEF SteadyInv

LEMMA SteadyInvariant ==
    ASSUME Calm, ~LateBeats
    PROVE  DispatchSpec => [](DispatchInv /\ SteadyInv)
<1>1. DispatchInit => SteadyInv
  BY SteadyInit
<1>2. DispatchInv /\ LeaseDiscipline /\ SteadyInv /\ [DispatchNext]_dispatchVars
        => SteadyInv'
  BY SteadyInductive
<1> QED BY <1>1, <1>2, DispatchInvariant, DispatchUsesStore, PTL DEF DispatchSpec

(* Calm, and with no beat after its job's report, pushLocked never blocks  *)
(* in its channel send while it has the dispatcher's mutex: the head of    *)
(* the line is a worker that owns nothing, and the channel of such a       *)
(* worker is empty.  Both hypotheses are needed: Dispatch_blocked.cfg has  *)
(* a late beat and no fault, and there the send blocks.                    *)
THEOREM SendNeverBlocksHolds ==
    ASSUME Calm, ~LateBeats
    PROVE  DispatchSpec => []SendNeverBlocks
<1>1. SteadyInv => SendNeverBlocks
  BY DEF SteadyInv, CargoInv, SendNeverBlocks
<1> QED BY <1>1, SteadyInvariant, PTL

(* Nor, under the same two hypotheses, does the line ever hold a worker    *)
(* that owns a job, so that nobody is handed a second one.                 *)
THEOREM InLineOwnsNothingHolds ==
    ASSUME Calm, ~LateBeats
    PROVE  DispatchSpec => []InLineOwnsNothing
<1>1. DispatchInv /\ SteadyInv => InLineOwnsNothing
  <2> SUFFICES ASSUME DispatchInv, SteadyInv, NEW i \in 1..Len(waiters), NEW j \in Job
               PROVE  ~Owns(of[waiters[i]], j)
    BY DEF InLineOwnsNothing
  <2>1. Wired /\ RestInv /\ LineInv
    BY DEF SteadyInv, DispatchInv
  <2>2. waiters[i] \in Stream /\ pc[waiters[i]] # "unused"
    BY LenProperties DEF DispatchInv, LineTyped, LineInv
  <2>3. of[waiters[i]] \in Worker /\ conn[of[waiters[i]]] = waiters[i]
    BY <2>1, <2>2, WorkerOfStream
  <2>4. HoldsNone(jobs, of[waiters[i]])
    BY <2>1, <2>2, <2>3 DEF RestInv, Rests
  <2> QED BY <2>4 DEF HoldsNone, Holds, Owns
<1> QED BY <1>1, SteadyInvariant, PTL

(* Under the same two hypotheses a worker process handles one job at a     *)
(* time, although its read loop starts a goroutine for whatever it is      *)
(* assigned.                                                               *)
THEOREM OneAtATimeHolds ==
    ASSUME Calm, ~LateBeats
    PROVE  DispatchSpec => []OneAtATime
<1>1. SteadyInv => OneAtATime
  <2> SUFFICES ASSUME SteadyInv, NEW w \in Worker, NEW g \in handlers[w],
                      NEW h \in handlers[w]
               PROVE  g = h
    BY DEF OneAtATime
  <2>1. PICK s \in Stream : conn[w] = s
    BY DEF SteadyInv, Wired, CargoInv
  <2>2. Agrees(jobs, w, deliveries[s], down[s], up[s], handlers[w])
    BY <2>1 DEF SteadyInv, CargoInv
  <2> QED BY <2>2 DEF Agrees, Stage, Idle, Queued, Assigned, Working, Reported
<1> QED BY <1>1, SteadyInvariant, PTL
-----------------------------------------------------------------------------
(***************************************************************************)
(* The books.  With beats that may come late a worker can be freed twice,  *)
(* handed a second job and made to block the dispatcher; what it owns is   *)
(* still what is on its way to it, in its hands, or reported and not       *)
(* answered, each attempt in one of those places and reported once.        *)
(***************************************************************************)
Coming(s, d, b, n) ==
    {x \in Work : \/ d = <<x>>
                  \/ b # NULL /\ b.to = s /\ b.work = x
                  \/ Has(n, {"assigned"}, x)}
ahead == [s \in Stream |-> Coming(s, deliveries[s], sending, down[s])]

Ruled(q, i, x) == i \in 1..Len(q) /\ q[i].type \in Verdict /\ Works(q[i]) = x
Balanced(o, a, h, q) ==
    /\ \A x \in Work : x \in o <=> x \in a \/ x \in h \/ \E i \in Pos : Ruled(q, i, x)
    /\ \A x \in Work, i \in Pos : Ruled(q, i, x)
          => x \notin a /\ x \notin h /\ \A k \in Pos : Ruled(q, k, x) => k = i

BooksInv ==
    /\ \A s \in Stream : pc[s] = "unused" => ahead[s] = {} /\ up[s] = <<>>
    /\ \A w \in Worker : conn[w] = NoStream => load[w] = {} /\ handlers[w] = {}
    /\ \A w \in Worker, s \in Stream : conn[w] = s =>
          Balanced(load[w], ahead[s], hand[w], up[s])
    /\ \A w \in Worker : \A h \in handlers[w] : h.live => h.beating

(* A message that joins those on their way, or the first taken off them.   *)
LEMMA HasSent ==
    ASSUME NEW q \in Seq(Message), NEW m \in Message, NEW r,
           r = Append(q, m) \/ r = q \o <<m>>, NEW T, NEW x
    PROVE  Has(r, T, x) <=> Has(q, T, x) \/ (m.type \in T /\ Works(m) = x)
<1>1. /\ Len(r) \in 1..Len(r) /\ r[Len(r)] = m
      /\ \A i \in 1..Len(r) : i # Len(r) => i \in 1..Len(q) /\ r[i] = q[i]
      /\ \A i \in 1..Len(q) : i \in 1..Len(r) /\ i # Len(r)
  BY LastPlaces
<1>2. Has(r, T, x) => Has(q, T, x) \/ (m.type \in T /\ Works(m) = x)
  BY <1>1 DEF Has
<1>3. m.type \in T /\ Works(m) = x => Has(r, T, x)
  BY <1>1 DEF Has
<1>4. Has(q, T, x) => Has(r, T, x)
  BY <1>1 DEF Has
<1> QED BY <1>2, <1>3, <1>4

LEMMA HasTaken ==
    ASSUME NEW q \in Seq(Message), q # <<>>, NEW T, NEW x
    PROVE  Has(q, T, x) <=> Has(Tail(q), T, x) \/ (Head(q).type \in T /\ Works(Head(q)) = x)
<1> DEFINE r == Tail(q)
<1>1. /\ Len(q) \in Nat /\ Len(r) = Len(q) - 1
      /\ 1 \in 1..Len(q) /\ Head(q) = q[1]
      /\ \A i \in 1..Len(r) : i + 1 \in 1..Len(q) /\ r[i] = q[i + 1]
  BY TailPlaces
<1> HIDE DEF r
<1>2. ASSUME NEW i \in 1..Len(q), i # 1
      PROVE  i - 1 \in 1..Len(r) /\ q[i] = r[i - 1]
  <2>1. i - 1 \in 1..Len(r) /\ (i - 1) + 1 = i
    BY <1>1, <1>2
  <2> QED BY <1>1, <2>1
<1>3. Has(q, T, x) => Has(r, T, x) \/ (Head(q).type \in T /\ Works(Head(q)) = x)
  BY <1>1, <1>2 DEF Has
<1>4. Has(r, T, x) => Has(q, T, x)
  BY <1>1 DEF Has
<1>5. Head(q).type \in T /\ Works(Head(q)) = x => Has(q, T, x)
  BY <1>1 DEF Has
<1> QED BY <1>3, <1>4, <1>5 DEF r

LEMMA RuledSent ==
    ASSUME NEW q \in Seq(Message), NEW m \in Message, NEW i \in Pos, NEW x
    PROVE  /\ Len(q) + 1 \in Pos
           /\ Ruled(Append(q, m), i, x)
                 <=> \/ Ruled(q, i, x)
                     \/ i = Len(q) + 1 /\ m.type \in Verdict /\ Works(m) = x
<1> DEFINE r == Append(q, m)
<1>1. /\ Len(q) \in Nat /\ Len(r) = Len(q) + 1
      /\ Len(r) \in 1..Len(r) /\ r[Len(r)] = m
      /\ \A k \in 1..Len(r) : k # Len(r) => k \in 1..Len(q) /\ r[k] = q[k]
      /\ \A k \in 1..Len(q) : k \in 1..Len(r) /\ k # Len(r)
  BY LastPlaces
<1>2. Len(q) + 1 \in Pos
  BY <1>1 DEF Pos
<1> HIDE DEF r
<1>3. Ruled(r, i, x) <=> \/ Ruled(q, i, x)
                         \/ i = Len(q) + 1 /\ m.type \in Verdict /\ Works(m) = x
  BY <1>1 DEF Ruled
<1> QED BY <1>2, <1>3 DEF r

LEMMA RuledTaken ==
    ASSUME NEW q \in Seq(Message), q # <<>>, NEW i \in Pos, NEW x
    PROVE  /\ i + 1 \in Pos /\ 1 \in Pos
           /\ Ruled(Tail(q), i, x) <=> Ruled(q, i + 1, x)
           /\ Ruled(q, 1, x) <=> Head(q).type \in Verdict /\ Works(Head(q)) = x
<1> DEFINE r == Tail(q)
<1>1. /\ Len(q) \in Nat /\ Len(r) = Len(q) - 1
      /\ 1 \in 1..Len(q) /\ Head(q) = q[1]
      /\ \A k \in 1..Len(r) : k + 1 \in 1..Len(q) /\ r[k] = q[k + 1]
  BY TailPlaces
<1>2. i + 1 \in Pos /\ 1 \in Pos /\ i \in Nat /\ i >= 1
  BY DEF Pos
<1> HIDE DEF r
<1>3. i \in 1..Len(r) <=> i + 1 \in 1..Len(q)
  BY <1>1, <1>2
<1>4. Ruled(r, i, x) <=> Ruled(q, i + 1, x)
  BY <1>1, <1>3 DEF Ruled
<1>5. Ruled(q, 1, x) <=> Head(q).type \in Verdict /\ Works(Head(q)) = x
  BY <1>1 DEF Ruled
<1> QED BY <1>2, <1>4, <1>5 DEF r

(* Five ways a step moves the books.  An attempt is claimed; it comes      *)
(* nearer, or into hand...                                                 *)
LEMMA BooksClaimed ==
    ASSUME NEW o, NEW a, NEW h, NEW q, NEW y \in Work, Balanced(o, a, h, q), y \notin o
    PROVE  Balanced(o \cup {y}, a \cup {y}, h, q)
<1>1. \A i \in Pos : ~Ruled(q, i, y)
  BY DEF Balanced
<1> QED BY <1>1 DEF Balanced

LEMMA BooksHanded ==
    ASSUME NEW o, NEW a, NEW h, NEW q, NEW a2, NEW h2, Balanced(o, a, h, q),
           \A x \in Work : x \in a2 \/ x \in h2 <=> x \in a \/ x \in h
    PROVE  Balanced(o, a2, h2, q)
BY DEF Balanced

(* ... or is reported; its report is answered; or a message goes up, or is *)
(* answered, that is no report.                                            *)
LEMMA BooksReported ==
    ASSUME NEW o, NEW a, NEW h, NEW q \in Seq(Message), NEW m \in Message,
           Balanced(o, a, h, q), m.type \in Verdict,
           Works(m) \in Work, Works(m) \in h, Works(m) \notin a
    PROVE  Balanced(o, a, h \ {Works(m)}, Append(q, m))
<1> DEFINE r == Append(q, m)
           y == Works(m)
           n == Len(q) + 1
<1>1. /\ n \in Pos
      /\ \A i \in Pos, x \in Work : Ruled(r, i, x) <=> Ruled(q, i, x) \/ (i = n /\ y = x)
  <2>1. 1 \in Pos
    BY DEF Pos
  <2> QED BY <2>1, RuledSent
<1>2. \A i \in Pos : ~Ruled(q, i, y)
  BY DEF Balanced
<1> HIDE DEF r, y, n
<1>3. y \in Work /\ y \in h /\ y \notin a
  BY DEF y
<1>4. ASSUME NEW x \in Work
      PROVE  x \in o <=> x \in a \/ x \in h \ {y} \/ \E i \in Pos : Ruled(r, i, x)
  <2>1. x \in o <=> x \in a \/ x \in h \/ \E i \in Pos : Ruled(q, i, x)
    BY DEF Balanced
  <2>2. (\E i \in Pos : Ruled(r, i, x)) <=> (\E i \in Pos : Ruled(q, i, x)) \/ x = y
    BY <1>1
  <2> QED BY <1>3, <2>1, <2>2
<1>5. ASSUME NEW x \in Work, NEW i \in Pos, Ruled(r, i, x)
      PROVE  x \notin a /\ x \notin h \ {y} /\ \A k \in Pos : Ruled(r, k, x) => k = i
  <2>1. CASE x = y
    BY <1>1, <1>2, <1>3, <1>5, <2>1
  <2>2. CASE x # y
    BY <1>1, <1>5, <2>2 DEF Balanced
  <2> QED BY <2>1, <2>2
<1>6. Balanced(o, a, h \ {y}, r)
  BY <1>4, <1>5 DEF Balanced
<1> QED BY <1>6 DEF r, y

LEMMA BooksAnswered ==
    ASSUME NEW o, NEW a, NEW h, NEW q \in Seq(Message), q # <<>>,
           Balanced(o, a, h, q), Head(q).type \in Verdict, Works(Head(q)) \in Work
    PROVE  /\ Works(Head(q)) \in o
           /\ Balanced(o \ {Works(Head(q))}, a, h, Tail(q))
<1> DEFINE r == Tail(q)
           y == Works(Head(q))
<1>1. /\ \A i \in Pos, x \in Work : Ruled(r, i, x) <=> Ruled(q, i + 1, x)
      /\ \A x \in Work : Ruled(q, 1, x) <=> y = x
      /\ \A i \in Pos : i + 1 \in Pos /\ 1 \in Pos
  <2>1. 1 \in Pos
    BY DEF Pos
  <2> QED BY <2>1, RuledTaken
<1>2. y \in Work
  OBVIOUS
<1>3. 1 \in Pos /\ \A i \in Pos : i # 1 => i - 1 \in Pos /\ (i - 1) + 1 = i
  BY DEF Pos
<1>4. \A i, k \in Pos : i + 1 = k + 1 => i = k
  BY DEF Pos
<1>5. \A i \in Pos : i + 1 # 1
  BY DEF Pos
<1> HIDE DEF r, y
<1>6. y \in o /\ y \notin a /\ y \notin h /\ \A k \in Pos : Ruled(q, k, y) => k = 1
  BY <1>1, <1>2, <1>3 DEF Balanced
<1>7. ASSUME NEW x \in Work
      PROVE  x \in o \ {y} <=> x \in a \/ x \in h \/ \E i \in Pos : Ruled(r, i, x)
  <2>1. x \in o <=> x \in a \/ x \in h \/ \E i \in Pos : Ruled(q, i, x)
    BY DEF Balanced
  <2>2. CASE x = y
    <3>1. ASSUME NEW i \in Pos
          PROVE  ~Ruled(r, i, y)
      BY <1>1, <1>2, <1>5, <1>6
    <3> QED BY <1>6, <2>2, <3>1
  <2>3. CASE x # y
    <3>1. (\E i \in Pos : Ruled(r, i, x)) => \E i \in Pos : Ruled(q, i, x)
      BY <1>1
    <3>2. ASSUME NEW i \in Pos, Ruled(q, i, x)
          PROVE  \E k \in Pos : Ruled(r, k, x)
      <4>1. i # 1
        BY <1>1, <2>3, <3>2
      <4>2. i - 1 \in Pos /\ (i - 1) + 1 = i
        BY <1>3, <4>1
      <4>3. Ruled(r, i - 1, x)
        BY <1>1, <3>2, <4>2
      <4> QED BY <4>2, <4>3
    <3> QED BY <2>1, <2>3, <3>1, <3>2
  <2> QED BY <2>2, <2>3
<1>8. ASSUME NEW x \in Work, NEW i \in Pos, Ruled(r, i, x)
      PROVE  x \notin a /\ x \notin h /\ \A k \in Pos : Ruled(r, k, x) => k = i
  <2>1. Ruled(q, i + 1, x) /\ i + 1 \in Pos
    BY <1>1, <1>8
  <2>2. x \notin a /\ x \notin h /\ \A k \in Pos : Ruled(q, k, x) => k = i + 1
    BY <2>1 DEF Balanced
  <2>3. ASSUME NEW k \in Pos, Ruled(r, k, x)
        PROVE  k = i
    BY <1>1, <1>4, <2>2, <2>3
  <2> QED BY <2>2, <2>3
<1>9. Balanced(o \ {y}, a, h, r)
  BY <1>7, <1>8 DEF Balanced
<1> QED BY <1>6, <1>9 DEF r, y

LEMMA BooksBeaten ==
    ASSUME NEW o, NEW a, NEW h, NEW q \in Seq(Message), Balanced(o, a, h, q)
    PROVE  /\ \A m \in Message : m.type \notin Verdict => Balanced(o, a, h, Append(q, m))
           /\ q # <<>> /\ Head(q).type \notin Verdict => Balanced(o, a, h, Tail(q))
<1>0. 1 \in Pos
  BY DEF Pos
<1>1. ASSUME NEW m \in Message, m.type \notin Verdict
      PROVE  Balanced(o, a, h, Append(q, m))
  <2>1. \A i \in Pos, x \in Work : Ruled(Append(q, m), i, x) <=> Ruled(q, i, x)
    BY <1>1, RuledSent
  <2> DEFINE r == Append(q, m)
  <2> HIDE DEF r
  <2>2. \A i \in Pos, x \in Work : Ruled(r, i, x) <=> Ruled(q, i, x)
    BY <2>1 DEF r
  <2>3. Balanced(o, a, h, r)
    BY <2>2 DEF Balanced
  <2> QED BY <2>3 DEF r
<1>2. ASSUME q # <<>>, Head(q).type \notin Verdict
      PROVE  Balanced(o, a, h, Tail(q))
  <2> DEFINE r == Tail(q)
  <2>1. /\ \A i \in Pos, x \in Work : Ruled(r, i, x) <=> Ruled(q, i + 1, x)
        /\ \A x \in Work : ~Ruled(q, 1, x)
        /\ \A i \in Pos : i + 1 \in Pos
    BY <1>0, <1>2, RuledTaken
  <2> HIDE DEF r
  <2>2. \A i \in Pos : i # 1 => i - 1 \in Pos /\ (i - 1) + 1 = i
    BY DEF Pos
  <2>3. \A i, k \in Pos : i + 1 = k + 1 => i = k
    BY DEF Pos
  <2>4. ASSUME NEW x \in Work
        PROVE  (\E i \in Pos : Ruled(r, i, x)) <=> \E i \in Pos : Ruled(q, i, x)
    <3>1. ASSUME NEW i \in Pos, Ruled(q, i, x)
          PROVE  \E k \in Pos : Ruled(r, k, x)
      <4>1. i - 1 \in Pos /\ (i - 1) + 1 = i
        BY <2>1, <2>2, <3>1
      <4>2. Ruled(r, i - 1, x)
        BY <2>1, <3>1, <4>1
      <4> QED BY <4>1, <4>2
    <3>2. (\E i \in Pos : Ruled(r, i, x)) => \E i \in Pos : Ruled(q, i, x)
      BY <2>1
    <3> QED BY <3>1, <3>2
  <2>5. ASSUME NEW x \in Work, NEW i \in Pos, Ruled(r, i, x)
        PROVE  x \notin a /\ x \notin h /\ \A k \in Pos : Ruled(r, k, x) => k = i
    <3>1. Ruled(q, i + 1, x) /\ i + 1 \in Pos
      BY <2>1, <2>5
    <3>2. x \notin a /\ x \notin h /\ \A k \in Pos : Ruled(q, k, x) => k = i + 1
      BY <3>1 DEF Balanced
    <3>3. ASSUME NEW k \in Pos, Ruled(r, k, x)
          PROVE  k = i
      BY <2>1, <2>3, <3>2, <3>3
    <3> QED BY <3>2, <3>3
  <2>6. \A x \in Work : x \in o <=> x \in a \/ x \in h \/ \E i \in Pos : Ruled(r, i, x)
    BY <2>4 DEF Balanced
  <2>7. Balanced(o, a, h, r)
    BY <2>5, <2>6 DEF Balanced
  <2> QED BY <2>7 DEF r
<1> QED BY <1>1, <1>2
-----------------------------------------------------------------------------
(* What a step does to what a worker owns...                               *)
LEMMA SameLoad ==
    ASSUME NEW v \in Worker, SameFor(jobs, jobs', v)
    PROVE  load'[v] = load[v]
<1>1. ASSUME NEW x \in Work
      PROVE  x \in load'[v] <=> x \in load[v]
  <2>1. x.job \in Job
    BY DEF Work
  <2>2. /\ Holds(jobs', v, x.job) <=> Holds(jobs, v, x.job)
        /\ Holds(jobs, v, x.job) => jobs'[x.job].retry_count = jobs[x.job].retry_count
    BY <2>1 DEF SameFor
  <2> QED BY <2>2 DEF load, Holds, Owns
<1>2. load'[v] \subseteq Work /\ load[v] \subseteq Work
  BY DEF load
<1> QED BY <1>1, <1>2

LEMMA ClaimLoad ==
    ASSUME StoreTypeOK, NEW t, NEW v \in Worker, NEW i \in Job, DequeueJob(t, v, i),
           NEW y, y = [job |-> i, attempt |-> jobs[i].retry_count + 1]
    PROVE  /\ y \in Work /\ y \notin load[v] /\ load'[v] = load[v] \cup {y}
           /\ \A w \in Worker : w # v => load'[w] = load[w]
<1> DEFINE r == [jobs[i] EXCEPT !.state = "processing", !.worker_id = v,
                                !.claim_term = Stamp(jobs[i].claim_term, t),
                                !.lease_expires_at = LeaseFor]
<1>1. jobs \in [Job -> Row] /\ jobs[i] \in Row /\ jobs[i].retry_count \in Nat
  BY RowTypes DEF StoreTypeOK
<1>2. jobs' = [jobs EXCEPT ![i] = r] /\ jobs[i].state = "pending"
  BY DEF DequeueJob, Visible
<1>3. /\ r.worker_id = v /\ r.state = "processing"
      /\ r.retry_count = jobs[i].retry_count
  BY <1>1 DEF Row
<1>4. y \in Work /\ y.job = i /\ y.attempt = jobs[i].retry_count + 1
  BY <1>1 DEF Work
<1> HIDE DEF r
<1>5. \A j \in Job : jobs'[j] = IF j = i THEN r ELSE jobs[j]
  BY <1>1, <1>2
<1>6. ASSUME NEW x \in Work
      PROVE  x \in load'[v] <=> x \in load[v] \/ x = y
  <2>1. x.job \in Job /\ x = [job |-> x.job, attempt |-> x.attempt]
    BY WorksOfWork DEF Work
  <2>2. CASE x.job = i
    <3>1. x = y <=> x.attempt = jobs[i].retry_count + 1
      BY <1>4, <2>1, <2>2
    <3>2. x \notin load[v]
      BY <1>2, <2>2 DEF load, Owns
    <3>3. x \in load'[v] <=> x.attempt = jobs[i].retry_count + 1
      BY <1>3, <1>5, <2>1, <2>2 DEF load, Owns
    <3> QED BY <3>1, <3>2, <3>3
  <2>3. CASE x.job # i
    <3>1. x # y
      BY <1>4, <2>3
    <3>2. jobs'[x.job] = jobs[x.job]
      BY <1>5, <2>1, <2>3
    <3>3. x \in load'[v] <=> x \in load[v]
      BY <3>2 DEF load, Owns
    <3> QED BY <3>1, <3>3
  <2> QED BY <2>2, <2>3
<1>7. load'[v] \subseteq Work /\ load[v] \subseteq Work
  BY DEF load
<1>8. y \notin load[v]
  BY <1>2, <1>4 DEF load, Owns
<1>9. \A w \in Worker : w # v => load'[w] = load[w]
  BY ClaimSame, SameLoad
<1> QED BY <1>4, <1>6, <1>7, <1>8, <1>9

LEMMA ReportLoad ==
    ASSUME StoreTypeOK, NEW v \in Worker, NEW y \in load[v],
           Complete(v, y.job) \/ FailJob(v, y.job)
    PROVE  /\ load'[v] = load[v] \ {y}
           /\ \A w \in Worker : w # v => load'[w] = load[w]
<1> DEFINE i == y.job
<1>1. /\ y \in Work /\ i \in Job /\ y.attempt = jobs[i].retry_count + 1
      /\ jobs \in [Job -> Row] /\ jobs[i] \in Row
  BY DEF load, Work, StoreTypeOK
<1>2. PICK r : jobs' = [jobs EXCEPT ![i] = r] /\ r.worker_id = NoWorker
  <2>1. CASE Complete(v, i)
    <3> DEFINE q == [jobs[i] EXCEPT !.state = "done", !.worker_id = NoWorker,
                                    !.lease_expires_at = NULL]
    <3>1. jobs' = [jobs EXCEPT ![i] = q]
      BY <2>1 DEF Complete
    <3>2. q.worker_id = NoWorker
      BY <1>1 DEF Row
    <3> QED BY <3>1, <3>2
  <2>2. CASE FailJob(v, i)
    <3> DEFINE q(k) == Released(jobs[i], k)
    <3>1. \A k : q(k).worker_id = NoWorker
      BY <1>1 DEF Released, Row
    <3>2. \E k : jobs' = [jobs EXCEPT ![i] = q(k)]
      BY <2>2 DEF FailJob
    <3> QED BY <3>1, <3>2
  <2> QED BY <2>1, <2>2
<1>3. NoWorker \notin Worker
  BY StoreAssumption
<1>4. \A j \in Job : jobs'[j] = IF j = i THEN r ELSE jobs[j]
  BY <1>1, <1>2
<1>5. \A w \in Worker : w # v => load'[w] = load[w]
  BY <1>1, ReportSame, SameLoad
<1> HIDE DEF i
<1>6. ASSUME NEW x \in Work
      PROVE  x \in load'[v] <=> x \in load[v] /\ x # y
  <2>1. x.job \in Job /\ x = [job |-> x.job, attempt |-> x.attempt]
        /\ y = [job |-> y.job, attempt |-> y.attempt]
    BY <1>1, WorksOfWork DEF Work
  <2>2. CASE x.job = i
    <3>1. x \notin load'[v]
      BY <1>2, <1>3, <1>4, <2>1, <2>2 DEF load, Owns
    <3>2. x \in load[v] => x.attempt = y.attempt
      BY <1>1, <2>2 DEF load
    <3> QED BY <2>1, <2>2, <3>1, <3>2 DEF i
  <2>3. CASE x.job # i
    <3>1. jobs'[x.job] = jobs[x.job] /\ x # y
      BY <1>4, <2>1, <2>3 DEF i
    <3> QED BY <3>1 DEF load, Owns
  <2> QED BY <2>2, <2>3
<1>7. load'[v] \subseteq Work /\ load[v] \subseteq Work
  BY DEF load
<1> QED BY <1>5, <1>6, <1>7

(* ... and to what is on its way to it.                                    *)
LEMMA AheadApart ==
    ASSUME FlowTyped, HandedOut, NEW w \in Worker, NEW s \in Stream, NEW x \in hand[w]
    PROVE  x \in Work /\ x \notin ahead[s]
<1>1. x \in Work
  BY DEF hand
<1>2. /\ x \notin channel[s] /\ x \notin blocked
      /\ \A i \in Pos : x \notin wire[s][i]
  BY <1>1 DEF HandedOut, Apart
<1>3. down[s] \in Seq(Message)
  BY DEF FlowTyped, WiresTyped
<1>4. \A i \in 1..Len(down[s]) : i \in Pos
  BY <1>3, LenProperties DEF Pos
<1>5. ~Has(down[s], {"assigned"}, x)
  BY <1>1, <1>2, <1>4 DEF Has, wire
<1>6. deliveries[s] # <<x>> /\ ~(sending # NULL /\ sending.work = x)
  BY <1>1, <1>2 DEF channel, blocked
<1> QED BY <1>1, <1>5, <1>6 DEF ahead, Coming

LEMMA AheadSame ==
    ASSUME NEW t \in Stream, deliveries'[t] = deliveries[t], sending' = sending,
           \A x \in Work : Has(down'[t], {"assigned"}, x) <=> Has(down[t], {"assigned"}, x)
    PROVE  ahead'[t] = ahead[t]
BY DEF ahead, Coming

LEMMA DeliverAhead ==
    ASSUME FlowTyped, NEW s \in Stream, broken[s] = FALSE, Deliver(s), NEW t \in Stream
    PROVE  ahead'[t] = ahead[t]
<1> DEFINE d == Head(deliveries[s])
           m == [type |-> "assigned", job |-> d.job, attempt |-> d.attempt]
<1>0. /\ down \in [Stream -> Seq(Message)] /\ deliveries \in [Stream -> Seq(Work)]
      /\ sending \in Cell \cup {NULL}
  BY DEF FlowTyped, WiresTyped, ChannelsTyped
<1>1. d \in Work /\ deliveries[s] = <<d>>
  BY OneDelivery DEF Deliver
<1>2. m \in Message /\ Works(m) = d /\ m.type = "assigned"
  BY <1>1, WorksOfWork DEF Work, Message, Works
<1>3. down' = [down EXCEPT ![s] = down[s] \o <<m>>]
  BY DEF Deliver, SendDown
<1>4. \/ /\ sending # NULL /\ sending.to = s /\ sending' = NULL
         /\ deliveries' = [deliveries EXCEPT ![s] = <<sending.work>>]
      \/ /\ ~(sending # NULL /\ sending.to = s) /\ sending' = sending
         /\ deliveries' = [deliveries EXCEPT ![s] = <<>>]
  BY DEF Deliver
<1> HIDE DEF d, m
<1>5. CASE t # s
  <2>1. deliveries'[t] = deliveries[t] /\ down'[t] = down[t]
    BY <1>0, <1>3, <1>4, <1>5
  <2>2. \A x : (sending # NULL /\ sending.to = t /\ sending.work = x)
                  <=> (sending' # NULL /\ sending'.to = t /\ sending'.work = x)
    BY <1>4, <1>5
  <2> QED BY <2>1, <2>2 DEF ahead, Coming
<1>6. CASE t = s
  <2>1. down'[s] = down[s] \o <<m>> /\ down[s] \in Seq(Message)
    BY <1>0, <1>3
  <2>2. \A x : Has(down'[s], {"assigned"}, x) <=> Has(down[s], {"assigned"}, x) \/ x = d
    BY <1>2, <2>1, HasSent
  <2>3. \A x : deliveries[s] = <<x>> <=> x = d
    BY <1>1
  <2>4. \A x \in Work : \/ deliveries'[s] = <<x>>
                        \/ sending' # NULL /\ sending'.to = s /\ sending'.work = x
                        <=> sending # NULL /\ sending.to = s /\ sending.work = x
    <3>1. CASE sending # NULL /\ sending.to = s /\ sending' = NULL
               /\ deliveries' = [deliveries EXCEPT ![s] = <<sending.work>>]
      <4>1. deliveries'[s] = <<sending.work>>
        BY <1>0, <3>1
      <4> QED BY <3>1, <4>1
    <3>2. CASE /\ ~(sending # NULL /\ sending.to = s) /\ sending' = sending
               /\ deliveries' = [deliveries EXCEPT ![s] = <<>>]
      <4>1. deliveries'[s] = <<>>
        BY <1>0, <3>2
      <4>2. \A x : <<x>> # <<>>
        OBVIOUS
      <4> QED BY <3>2, <4>1, <4>2
    <3> QED BY <1>4, <3>1, <3>2
  <2> QED BY <1>6, <2>2, <2>3, <2>4 DEF ahead, Coming
<1> QED BY <1>5, <1>6

LEMMA ClaimAhead ==
    ASSUME LineTyped, LineInv, FlowTyped, NEW j \in Job, PushClaim(j),
           NEW y \in Work, y = [job |-> j, attempt |-> jobs[j].retry_count + 1]
    PROVE  /\ ahead'[Head(waiters)] = ahead[Head(waiters)] \cup {y}
           /\ \A t \in Stream : t # Head(waiters) => ahead'[t] = ahead[t]
<1> DEFINE s == Head(waiters)
<1>0. s \in Stream /\ deliveries \in [Stream -> Seq(Work)] /\ sending = NULL /\ down' = down
  BY HeadInLine DEF PushClaim, FlowTyped, ChannelsTyped
<1>1. \/ /\ deliveries[s] = <<>> /\ sending' = NULL
         /\ deliveries' = [deliveries EXCEPT ![s] = <<y>>]
      \/ /\ deliveries[s] # <<>> /\ sending' = [to |-> s, work |-> y]
         /\ deliveries' = deliveries
  BY <1>0 DEF PushClaim
<1> HIDE DEF s
<1>2. [to |-> s, work |-> y] # NULL
  BY <1>0, DispatchAssumption DEF s, Work
<1>3. ASSUME NEW t \in Stream, t # s
      PROVE  ahead'[t] = ahead[t]
  <2>1. deliveries'[t] = deliveries[t] /\ (sending' # NULL => sending'.to # t)
    BY <1>0, <1>1, <1>3
  <2> QED BY <1>0, <2>1 DEF ahead, Coming
<1>4. \A x \in Work : x \in ahead'[s] <=> x \in ahead[s] \/ x = y
  <2>1. CASE /\ deliveries[s] = <<>> /\ sending' = NULL
             /\ deliveries' = [deliveries EXCEPT ![s] = <<y>>]
    <3>1. deliveries'[s] = <<y>>
      BY <1>0, <2>1
    <3>2. \A x : deliveries[s] # <<x>>
      BY <2>1
    <3> QED BY <1>0, <2>1, <3>1, <3>2 DEF ahead, Coming
  <2>2. CASE /\ deliveries[s] # <<>> /\ sending' = [to |-> s, work |-> y]
             /\ deliveries' = deliveries
    BY <1>0, <1>2, <2>2 DEF ahead, Coming
  <2> QED BY <1>1, <2>1, <2>2
<1>5. ahead'[s] \subseteq Work /\ ahead[s] \subseteq Work
  BY <1>0 DEF ahead, Coming
<1> QED BY <1>3, <1>4, <1>5 DEF s
-----------------------------------------------------------------------------
(* The steps.  A step moves the books of one worker, or nobody's.          *)
Aside(w, s) ==
    /\ conn' = conn
    /\ \A t \in Stream : pc'[t] = "unused" => pc[t] = "unused"
    /\ \A t \in Stream : t # s => ahead'[t] = ahead[t] /\ up'[t] = up[t]
    /\ \A v \in Worker : v # w => /\ load'[v] = load[v] /\ hand'[v] = hand[v]
                                  /\ handlers'[v] = handlers[v]
Beating(hs) == \A h \in hs : h.live => h.beating

LEMMA BooksMoved ==
    ASSUME Wired, BooksInv, NEW w \in Worker, NEW s \in Stream, conn[w] = s, Aside(w, s),
           Balanced(load'[w], ahead'[s], hand'[w], up'[s]), Beating(handlers'[w])
    PROVE  BooksInv'
<1>0. /\ pc[s] # "unused" /\ s # NoStream
      /\ \A v \in Worker : conn[v] = s => v = w
  BY StreamOfWorker, DispatchAssumption
<1>1. \A t \in Stream : pc'[t] = "unused" => ahead'[t] = {} /\ up'[t] = <<>>
  BY <1>0 DEF Aside, BooksInv
<1>2. \A v \in Worker : conn'[v] = NoStream => load'[v] = {} /\ handlers'[v] = {}
  BY <1>0 DEF Aside, BooksInv
<1>3. ASSUME NEW v \in Worker, NEW t \in Stream, conn'[v] = t
      PROVE  Balanced(load'[v], ahead'[t], hand'[v], up'[t])
  <2>0. conn[v] = t
    BY <1>3 DEF Aside
  <2>1. CASE v = w
    BY <2>0, <2>1
  <2>2. CASE v # w
    <3>1. t # s
      BY <1>0, <2>0, <2>2
    <3>2. Balanced(load[v], ahead[t], hand[v], up[t])
      BY <2>0 DEF BooksInv
    <3>3. /\ load'[v] = load[v] /\ ahead'[t] = ahead[t] /\ hand'[v] = hand[v]
          /\ up'[t] = up[t]
      BY <2>2, <3>1 DEF Aside
    <3> QED BY <3>2, <3>3
  <2> QED BY <2>1, <2>2
<1>4. \A v \in Worker : \A h \in handlers'[v] : h.live => h.beating
  BY DEF Aside, BooksInv, Beating
<1> QED BY <1>1, <1>2, <1>3, <1>4 DEF BooksInv

LEMMA BooksKept ==
    ASSUME BooksInv, UNCHANGED <<conn, up, handlers>>,
           \A t \in Stream : pc'[t] = "unused" => pc[t] = "unused",
           \A t \in Stream : ahead'[t] = ahead[t],
           \A v \in Worker : load'[v] = load[v]
    PROVE  BooksInv'
<1>0. hand' = hand
  BY DEF hand
<1>1. ASSUME NEW v \in Worker, NEW t \in Stream, conn'[v] = t
      PROVE  Balanced(load'[v], ahead'[t], hand'[v], up'[t])
  <2>1. Balanced(load[v], ahead[t], hand[v], up[t])
    BY <1>1 DEF BooksInv
  <2> QED BY <1>0, <2>1
<1>2. /\ \A t \in Stream : pc'[t] = "unused" => ahead'[t] = {} /\ up'[t] = <<>>
      /\ \A v \in Worker : conn'[v] = NoStream => load'[v] = {} /\ handlers'[v] = {}
      /\ \A v \in Worker : \A h \in handlers'[v] : h.live => h.beating
  BY DEF BooksInv
<1> QED BY <1>1, <1>2 DEF BooksInv

LEMMA LineKeepsBooks ==
    ASSUME DispatchInv, BooksInv,
           \/ \E s \in Stream : Register(s)
           \/ Push("enqueue") \/ Push("timer") \/ TimerFires \/ PushDone
           \/ \E j \in Job : Enqueue(j) \/ EnqueueUnpushed(j)
           \/ DispatchTick
           \/ UNCHANGED dispatchVars
    PROVE  BooksInv'
<1>0. StoreTypeOK /\ pc \in [Stream -> PcState]
  BY DEF DispatchInv, LineTyped
<1>1. UNCHANGED <<conn, up, handlers, deliveries, sending, down>>
  BY DEF Register, Push, PushDone, TimerFires, Enqueue, EnqueueUnpushed, DispatchTick,
         dispatchVars, lineVars, streamVars, workerVars
<1>2. \A t \in Stream : ahead'[t] = ahead[t]
  BY <1>1, AheadSame
<1>3. \A t \in Stream : pc'[t] = "unused" => pc[t] = "unused"
  BY <1>0 DEF Register, Push, PushDone, Unlock, TimerFires, Enqueue, EnqueueUnpushed,
              DispatchTick, dispatchVars, streamVars
<1>4. ASSUME NEW v \in Worker
      PROVE  load'[v] = load[v]
  <2>1. ASSUME jobs' = jobs
        PROVE  load'[v] = load[v]
    BY <2>1 DEF load, Owns
  <2>2. ASSUME NEW j \in Job, Enqueue(j) \/ EnqueueUnpushed(j)
        PROVE  load'[v] = load[v]
    <3>1. PICK status \in StatusIn, max \in MaxRetriesIn : CreateJob(j, status, max)
      BY <2>2 DEF Enqueue, EnqueueUnpushed
    <3> QED BY <1>0, <3>1, FilingSame, SameLoad
  <2>3. CASE DispatchTick
    BY <1>0, <2>3, TickSame, SameLoad DEF DispatchTick
  <2>4. CASE \/ \E s \in Stream : Register(s)
             \/ Push("enqueue") \/ Push("timer") \/ TimerFires \/ PushDone
             \/ UNCHANGED dispatchVars
    <3>1. jobs' = jobs
      BY <2>4 DEF Register, Push, PushDone, TimerFires, dispatchVars, storeVars
    <3> QED BY <2>1, <3>1
  <2> QED BY <2>2, <2>3, <2>4
<1> QED BY <1>1, <1>2, <1>3, <1>4, BooksKept

LEMMA DeliverKeepsBooks ==
    ASSUME DispatchInv, Wired, BooksInv, NEW s \in Stream, Deliver(s)
    PROVE  BooksInv'
<1>1. UNCHANGED <<conn, up, handlers, pc, jobs>>
  BY DEF Deliver, workerVars, storeVars
<1>2. \A t \in Stream : ahead'[t] = ahead[t]
  BY DeliverAhead DEF DispatchInv, Wired
<1>3. \A v \in Worker : load'[v] = load[v]
  BY <1>1 DEF load, Owns
<1> QED BY <1>1, <1>2, <1>3, BooksKept

LEMMA ClaimKeepsBooks ==
    ASSUME DispatchInv, Wired, BooksInv, NEW j \in Job, PushClaim(j)
    PROVE  BooksInv'
<1> DEFINE s == Head(waiters)
           w == of[s]
           y == [job |-> j, attempt |-> jobs[j].retry_count + 1]
<1>0. StoreTypeOK /\ LineTyped /\ LineInv /\ FlowTyped
  BY DEF DispatchInv
<1>1. s \in Stream /\ w \in Worker /\ conn[w] = s
  BY <1>0, HeadInLine, WorkerOfStream DEF PushClaim
<1>2. UNCHANGED <<conn, up, handlers, pc>> /\ DequeueJob(Reign1, w, j)
  BY DEF PushClaim, workerVars
<1>3. hand' = hand
  BY <1>2 DEF hand
<1>4. y = [job |-> j, attempt |-> jobs[j].retry_count + 1]
  OBVIOUS
<1>5. /\ ahead'[s] = ahead[s] \cup {y} /\ \A t \in Stream : t # s => ahead'[t] = ahead[t]
      /\ y \in Work /\ y \notin load[w] /\ load'[w] = load[w] \cup {y}
      /\ \A v \in Worker : v # w => load'[v] = load[v]
  <2> HIDE DEF w, y
  <2>1. /\ y \in Work /\ y \notin load[w] /\ load'[w] = load[w] \cup {y}
        /\ \A v \in Worker : v # w => load'[v] = load[v]
    BY <1>0, <1>1, <1>2, <1>4, ClaimLoad
  <2>2. ahead'[s] = ahead[s] \cup {y} /\ \A t \in Stream : t # s => ahead'[t] = ahead[t]
    BY <1>0, <1>4, <2>1, ClaimAhead
  <2> QED BY <2>1, <2>2
<1> HIDE DEF s, w, y
<1>6. Balanced(load[w], ahead[s], hand[w], up[s])
  BY <1>1 DEF BooksInv
<1>7. Balanced(load[w] \cup {y}, ahead[s] \cup {y}, hand[w], up[s])
  BY <1>5, <1>6, BooksClaimed
<1>8. Balanced(load'[w], ahead'[s], hand'[w], up'[s])
  BY <1>2, <1>3, <1>5, <1>7
<1>9. Aside(w, s)
  BY <1>2, <1>3, <1>5 DEF Aside
<1>10. Beating(handlers'[w])
  BY <1>1, <1>2 DEF BooksInv, Beating
<1> QED BY <1>1, <1>8, <1>9, <1>10, BooksMoved

LEMMA ConnectKeepsBooks ==
    ASSUME DispatchInv, Wired, BooksInv, NEW w \in Worker, NEW s \in Stream, Connect(w, s)
    PROVE  BooksInv'
<1>0. /\ pc \in [Stream -> PcState] /\ conn \in [Worker -> Stream \cup {NoStream, "dead"}]
      /\ NoStream \notin Stream
  BY DispatchAssumption DEF DispatchInv, LineTyped, FlowTyped, WorkersTyped
<1>1. /\ conn[w] = NoStream /\ pc[s] = "unused"
      /\ UNCHANGED <<up, handlers, jobs, deliveries, sending, down>>
      /\ \A v \in Worker : conn'[v] = IF v = w THEN s ELSE conn[v]
      /\ \A t \in Stream : pc'[t] = IF t = s THEN "register" ELSE pc[t]
  BY <1>0 DEF Connect, lineVars, storeVars
<1>2. load' = load /\ hand' = hand /\ \A t \in Stream : ahead'[t] = ahead[t]
  BY <1>1, AheadSame DEF load, Owns, hand
<1>3. ahead[s] = {} /\ up[s] = <<>> /\ load[w] = {} /\ handlers[w] = {} /\ hand[w] = {}
  BY <1>1 DEF BooksInv, hand
<1>4. Balanced({}, {}, {}, <<>>)
  <2>1. \A i \in Pos : i \notin 1..Len(<<>>)
    BY DEF Pos
  <2> QED BY <2>1 DEF Balanced, Ruled
<1>5. ASSUME NEW v \in Worker, NEW t \in Stream, conn'[v] = t
      PROVE  Balanced(load'[v], ahead'[t], hand'[v], up'[t])
  <2>1. CASE v = w
    <3>1. t = s
      BY <1>1, <1>5, <2>1
    <3> QED BY <1>1, <1>2, <1>3, <1>4, <2>1, <3>1
  <2>2. CASE v # w
    <3>1. Balanced(load[v], ahead[t], hand[v], up[t])
      BY <1>1, <1>5, <2>2 DEF BooksInv
    <3> QED BY <1>1, <1>2, <3>1
  <2> QED BY <2>1, <2>2
<1>6. /\ \A t \in Stream : pc'[t] = "unused" => ahead'[t] = {} /\ up'[t] = <<>>
      /\ \A v \in Worker : conn'[v] = NoStream => load'[v] = {} /\ handlers'[v] = {}
      /\ \A v \in Worker : \A h \in handlers'[v] : h.live => h.beating
  BY <1>0, <1>1, <1>2 DEF BooksInv
<1> QED BY <1>5, <1>6 DEF BooksInv

(* A report is about an attempt its worker owns, and so is applied to it.  *)
LEMMA VerdictOwned ==
    ASSUME DispatchInv, Wired, BooksInv, NEW s \in Stream, pc[s] = "select", up[s] # <<>>
    PROVE  /\ of[s] \in Worker /\ conn[of[s]] = s
           /\ up[s] \in Seq(Message) /\ Head(up[s]) \in Message
           /\ Works(Head(up[s])) \in Work /\ Works(Head(up[s])).job = Head(up[s]).job
           /\ Head(up[s]).type \in Verdict => Works(Head(up[s])) \in load[of[s]]
<1>1. of[s] \in Worker /\ conn[of[s]] = s
  BY WorkerOfStream DEF DispatchInv
<1>2. up[s] \in Seq(Message) /\ Head(up[s]) \in Message
  BY HeadMessage DEF DispatchInv, FlowTyped, WiresTyped
<1>3. Works(Head(up[s])) \in Work /\ Works(Head(up[s])).job = Head(up[s]).job
  BY <1>2 DEF Works, Work, Message
<1>4. Balanced(load[of[s]], ahead[s], hand[of[s]], up[s])
  BY <1>1 DEF BooksInv
<1> QED BY <1>1, <1>2, <1>3, <1>4, BooksAnswered

LEMMA AnswerKeepsBooks ==
    ASSUME DispatchInv, Wired, BackoffsFit, BooksInv, NEW s \in Stream, Answer(s)
    PROVE  BooksInv'
<1> DEFINE w == of[s]
           m == Head(up[s])
           x == Works(m)
<1>0. /\ StoreTypeOK /\ pc \in [Stream -> PcState]
      /\ up \in [Stream -> Seq(Message)] /\ down \in [Stream -> Seq(Message)]
  BY DEF DispatchInv, LineTyped, FlowTyped, WiresTyped
<1>1. /\ pc[s] = "select" /\ broken[s] = FALSE /\ up[s] # <<>>
      /\ up' = [up EXCEPT ![s] = Tail(up[s])]
      /\ UNCHANGED <<sending, conn, deliveries, handlers>>
  BY DEF Answer, Wired, lineVars, workerVars
<1>2. /\ w \in Worker /\ conn[w] = s /\ up[s] \in Seq(Message) /\ m \in Message
      /\ x \in Work /\ x.job = m.job /\ (m.type \in Verdict => x \in load[w])
  BY <1>1, VerdictOwned
<1>3. PICK renewed \in BOOLEAN :
         /\ Replied(s, Reply(m, renewed), Frees(m, renewed))
         /\ Applied(w, m) \/ Refused(w, m)
  BY DEF Answer
<1>4. /\ \A t \in Stream : pc'[t] = "unused" => pc[t] = "unused"
      /\ down' = [down EXCEPT ![s] = down[s] \o Reply(m, renewed)]
  BY <1>0, <1>1, <1>3 DEF Replied, SendDown
<1>5. hand' = hand
  BY <1>1 DEF hand
<1> HIDE DEF w, m, x
<1>6. ASSUME NEW t \in Stream
      PROVE  ahead'[t] = ahead[t]
  <2>1. ASSUME NEW y
        PROVE  Has(down'[t], {"assigned"}, y) <=> Has(down[t], {"assigned"}, y)
    <3>1. CASE t # s
      BY <1>0, <1>4, <3>1
    <3>2. CASE t = s /\ Reply(m, renewed) = <<>>
      BY <1>0, <1>4, <3>2, ConcatEmptySeq
    <3>3. ASSUME NEW type \in {"lost", "result"}, t = s,
                 Reply(m, renewed) = <<[type |-> type, job |-> m.job, attempt |-> m.attempt]>>
          PROVE  Has(down'[t], {"assigned"}, y) <=> Has(down[t], {"assigned"}, y)
      <4> DEFINE r == [type |-> type, job |-> m.job, attempt |-> m.attempt]
      <4>1. r \in Message /\ r.type \notin {"assigned"}
        BY <1>2 DEF Message
      <4> HIDE DEF r
      <4>2. down'[t] = down[t] \o <<r>> /\ down[t] \in Seq(Message)
        BY <1>0, <1>4, <3>3 DEF r
      <4> QED BY <4>1, <4>2, HasSent
    <3> QED BY <3>1, <3>2, <3>3 DEF Reply
  <2> QED BY <1>1, <2>1, AheadSame
<1>7. /\ up'[s] = Tail(up[s]) /\ \A t \in Stream : t # s => up'[t] = up[t]
      /\ Balanced(load[w], ahead[s], hand[w], up[s])
  BY <1>0, <1>1, <1>2 DEF BooksInv
<1>8. Beating(handlers'[w])
  BY <1>1, <1>2 DEF BooksInv, Beating
<1>9. CASE m.type \in Verdict
  <2>1. x \in load[w] /\ Owns(w, m.job)
    BY <1>2, <1>9 DEF load
  <2>2. Applied(w, m)
    BY <1>0, <1>2, <1>3, <2>1, HolderNotRefused
  <2>3. Complete(w, x.job) \/ FailJob(w, x.job)
    BY <1>2, <1>9, <2>2 DEF Applied, Verdict
  <2>4. load'[w] = load[w] \ {x} /\ \A v \in Worker : v # w => load'[v] = load[v]
    BY <1>0, <1>2, <2>1, <2>3, ReportLoad
  <2>5. Balanced(load[w] \ {x}, ahead[s], hand[w], Tail(up[s]))
    BY <1>1, <1>2, <1>7, <1>9, BooksAnswered DEF m, x
  <2>6. Balanced(load'[w], ahead'[s], hand'[w], up'[s])
    BY <1>5, <1>6, <1>7, <2>4, <2>5
  <2>7. Aside(w, s)
    BY <1>1, <1>4, <1>5, <1>6, <1>7, <2>4 DEF Aside
  <2> QED BY <1>2, <1>8, <2>6, <2>7, BooksMoved
<1>10. CASE m.type \notin Verdict
  <2>1. m.job \in Job
    BY <1>2 DEF Message
  <2>2. ASSUME NEW v \in Worker
        PROVE  load'[v] = load[v]
    <3>1. CASE HeartbeatJob(w, m.job)
      BY <1>0, <2>1, <3>1, BeatSame, SameLoad
    <3>2. CASE Refused(w, m)
      BY <3>2 DEF Refused, storeVars, load, Owns
    <3> QED BY <1>3, <1>10, <3>1, <3>2 DEF Applied, Verdict
  <2>3. Balanced(load[w], ahead[s], hand[w], Tail(up[s]))
    BY <1>1, <1>2, <1>7, <1>10, BooksBeaten DEF m
  <2>4. Balanced(load'[w], ahead'[s], hand'[w], up'[s])
    BY <1>2, <1>5, <1>6, <1>7, <2>2, <2>3
  <2>5. Aside(w, s)
    BY <1>1, <1>4, <1>5, <1>6, <1>7, <2>2 DEF Aside
  <2> QED BY <1>2, <1>8, <2>4, <2>5, BooksMoved
<1> QED BY <1>9, <1>10

(* What the worker reads: an assignment comes into hand; a Lost cancels    *)
(* nothing, for whatever is in hand is owned, and the Lost is not for it.  *)
LEMMA ReceiveKeepsBooks ==
    ASSUME DispatchInv, Wired, LostInv, BooksInv, NEW w \in Worker, Receive(w)
    PROVE  BooksInv'
<1> DEFINE s == conn[w]
           m == Head(down[s])
           g == [job |-> m.job, attempt |-> m.attempt, live |-> TRUE, beating |-> TRUE]
<1>0. /\ down \in [Stream -> Seq(Message)] /\ handlers \in [Worker -> SUBSET Handler]
  BY DEF DispatchInv, FlowTyped, WiresTyped, WorkersTyped
<1>1. /\ s \in Stream /\ down[s] # <<>> /\ down' = [down EXCEPT ![s] = Tail(down[s])]
      /\ down[s] \in Seq(Message)
      /\ UNCHANGED <<pc, sending, jobs, conn, up, deliveries>>
  BY <1>0 DEF Receive, lineVars, storeVars
<1>2. m \in Message /\ 1 \in 1..Len(down[s]) /\ down[s][1] = m
  BY <1>1, TailPlaces
<1>3. load' = load
  BY <1>1 DEF load, Owns
<1>4. Balanced(load[w], ahead[s], hand[w], up[s])
  BY <1>1 DEF BooksInv
<1>5. \/ m.type = "assigned" /\ handlers' = [handlers EXCEPT ![w] = handlers[w] \cup {g}]
      \/ m.type # "assigned" /\ handlers' = handlers
  <2>1. ASSUME m.type = "lost", slot[w] # NULL, slot[w].job = m.job,
               NEW h \in handlers[w], h.live, Works(h) = slot[w]
        PROVE  FALSE
    <3> DEFINE x == Works(h)
    <3>1. h \in Handler
      BY <1>0
    <3>2. x \in Work /\ x.job = m.job
      BY <2>1, <3>1 DEF Works, Work, Handler
    <3>3. x \in hand[w]
      BY <2>1, <3>2 DEF hand
    <3>4. x \in load[w]
      BY <1>4, <3>2, <3>3 DEF Balanced
    <3>5. x.job \in lost[s][1] /\ 1 \in Pos
      BY <1>1, <1>2, <2>1, <3>2 DEF lost, Pos, Work
    <3> QED BY <1>1, <3>2, <3>3, <3>4, <3>5 DEF LostInv, LostsBehind, Behind
  <2> QED BY <2>1 DEF Receive
<1>6. g \in Handler /\ g.live /\ g.beating /\ Works(g) = Works(m)
  BY <1>2 DEF Message, Handler, Works
<1>7. Works(m) \in Work
  BY <1>2 DEF Works, Work, Message
<1> HIDE DEF g, m, s
<1>8. down'[s] = Tail(down[s]) /\ \A t \in Stream : t # s => down'[t] = down[t]
  BY <1>0, <1>1
<1>9. \A t \in Stream : t # s => ahead'[t] = ahead[t]
  BY <1>1, <1>8, AheadSame
<1>10. \A v \in Worker : v # w => handlers'[v] = handlers[v] /\ hand'[v] = hand[v]
  <2>1. \A v \in Worker : v # w => handlers'[v] = handlers[v]
    BY <1>0, <1>5
  <2> QED BY <2>1 DEF hand
<1>11. \A y : Has(down[s], {"assigned"}, y)
                 <=> Has(down'[s], {"assigned"}, y) \/ (m.type = "assigned" /\ Works(m) = y)
  BY <1>1, <1>8, HasTaken DEF m
<1>12. \A y \in Work : y \in ahead[s]
                 <=> y \in ahead'[s] \/ (m.type = "assigned" /\ Works(m) = y)
  BY <1>1, <1>11 DEF ahead, Coming
<1>13. \A y \in Work : y \in hand'[w]
                 <=> y \in hand[w] \/ (m.type = "assigned" /\ Works(m) = y)
  <2>1. CASE m.type = "assigned" /\ handlers' = [handlers EXCEPT ![w] = handlers[w] \cup {g}]
    <3>1. handlers'[w] = handlers[w] \cup {g}
      BY <1>0, <2>1
    <3> QED BY <1>6, <2>1, <3>1 DEF hand
  <2>2. CASE m.type # "assigned" /\ handlers' = handlers
    BY <2>2 DEF hand
  <2> QED BY <1>5, <2>1, <2>2
<1>14. Balanced(load[w], ahead'[s], hand'[w], up[s])
  <2>1. \A y \in Work : y \in ahead'[s] \/ y \in hand'[w] <=> y \in ahead[s] \/ y \in hand[w]
    BY <1>12, <1>13
  <2> QED BY <1>4, <2>1, BooksHanded
<1>15. Balanced(load'[w], ahead'[s], hand'[w], up'[s])
  BY <1>1, <1>3, <1>14
<1>16. Aside(w, s)
  BY <1>1, <1>3, <1>9, <1>10 DEF Aside
<1>17. Beating(handlers'[w])
  BY <1>0, <1>5, <1>6 DEF BooksInv, Beating
<1> QED BY <1>1, <1>15, <1>16, <1>17, BooksMoved DEF s

(* A worker with a handler has a stream it can send on.                    *)
LEMMA HandlerHasStream ==
    ASSUME DispatchInv, Wired, BooksInv, NEW w \in Worker, NEW h \in handlers[w],
           NEW type \in Said, SendUp(w, type, h)
    PROVE  LET m == [type |-> type, job |-> h.job, attempt |-> h.attempt]
           IN  /\ conn[w] \in Stream /\ CanSend(w) /\ h \in Handler
               /\ m \in Message /\ Works(m) = Works(h) /\ Works(h) \in Work
               /\ up'[conn[w]] = Append(up[conn[w]], m)
               /\ \A t \in Stream : t # conn[w] => up'[t] = up[t]
               /\ up[conn[w]] \in Seq(Message)
<1> DEFINE m == [type |-> type, job |-> h.job, attempt |-> h.attempt]
<1>1. h \in Handler /\ up \in [Stream -> Seq(Message)]
  BY DEF DispatchInv, FlowTyped, WorkersTyped, WiresTyped
<1>2. conn[w] \in Stream
  BY DEF Wired, BooksInv
<1>3. CanSend(w)
  BY <1>2 DEF CanSend, Wired
<1>4. m \in Message /\ Works(m) = Works(h) /\ Works(h) \in Work
  BY <1>1 DEF Message, Handler, Works, Work, Said, Verdict
<1>5. up' = [up EXCEPT ![conn[w]] = Append(up[conn[w]], m)]
  BY <1>3 DEF SendUp
<1> HIDE DEF m
<1>6. /\ up'[conn[w]] = Append(up[conn[w]], m)
      /\ \A t \in Stream : t # conn[w] => up'[t] = up[t]
      /\ up[conn[w]] \in Seq(Message)
  BY <1>1, <1>2, <1>5
<1> QED BY <1>1, <1>2, <1>3, <1>4, <1>6 DEF m

LEMMA ReportKeepsBooks ==
    ASSUME DispatchInv, Wired, HandedOut, BooksInv, NEW w \in Worker,
           NEW h \in handlers[w], NEW verdict \in Verdict, Report(w, h, verdict)
    PROVE  BooksInv'
<1> DEFINE s == conn[w]
           m == [type |-> verdict, job |-> h.job, attempt |-> h.attempt]
           x == Works(h)
<1>0. handlers \in [Worker -> SUBSET Handler] /\ FlowTyped
  BY DEF DispatchInv, FlowTyped, WorkersTyped
<1>1. /\ s \in Stream /\ h \in Handler /\ m \in Message /\ Works(m) = x /\ x \in Work
      /\ up'[s] = Append(up[s], m) /\ \A t \in Stream : t # s => up'[t] = up[t]
      /\ up[s] \in Seq(Message)
  <2>1. SendUp(w, verdict, h) /\ verdict \in Said
    BY DEF Report, Said
  <2> QED BY <2>1, HandlerHasStream
<1>2. m.type \in Verdict
  OBVIOUS
<1>3. /\ h.live /\ UNCHANGED <<pc, sending, jobs, conn, down, deliveries>>
  BY DEF Report, lineVars, storeVars
<1>4. PICK hs \in Stopped(handlers[w], h) : handlers' = [handlers EXCEPT ![w] = hs]
  BY DEF Report
<1>5. /\ handlers'[w] = hs /\ handlers[w] \ {h} \subseteq hs
      /\ \A v \in Worker : v # w => handlers'[v] = handlers[v]
  BY <1>0, <1>4 DEF Stopped
<1>6. \A g \in hs : g.live => g \in handlers[w] /\ g # h
  <2>1. ~[h EXCEPT !.live = FALSE].live
    BY <1>1 DEF Handler
  <2>2. \A g \in hs : g \in handlers[w] \ {h} \/ g = [h EXCEPT !.live = FALSE]
    BY <1>4 DEF Stopped
  <2> QED BY <2>1, <2>2
<1> HIDE DEF s, m, x
<1>7. \A g \in handlers[w] : g.live /\ Works(g) = x => g = h
  <2> SUFFICES ASSUME NEW g \in handlers[w], g.live, Works(g) = x
               PROVE  g = h
    OBVIOUS
  <2>1. g \in Handler /\ h \in Handler /\ g.beating /\ h.beating
    BY <1>0, <1>3 DEF BooksInv
  <2>2. g.job = h.job /\ g.attempt = h.attempt
    BY DEF x, Works
  <2>3. /\ g = [job |-> g.job, attempt |-> g.attempt, live |-> g.live, beating |-> g.beating]
        /\ h = [job |-> h.job, attempt |-> h.attempt, live |-> h.live, beating |-> h.beating]
        /\ {g.live, h.live, g.beating, h.beating} \subseteq BOOLEAN
    BY <2>1 DEF Handler
  <2>4. g.live = h.live /\ g.beating = h.beating
    BY <1>3, <2>1, <2>3
  <2> QED BY <2>2, <2>3, <2>4
<1>8. \A y \in Work : y \in hand'[w] <=> y \in hand[w] /\ y # x
  <2>1. ASSUME NEW y \in Work, y \in hand'[w]
        PROVE  y \in hand[w] /\ y # x
    <3>1. PICK g \in hs : g.live /\ Works(g) = y
      BY <1>5, <2>1 DEF hand
    <3>2. g \in handlers[w] /\ g # h
      BY <1>6, <3>1
    <3> QED BY <1>7, <2>1, <3>1, <3>2 DEF hand
  <2>2. ASSUME NEW y \in Work, y \in hand[w], y # x
        PROVE  y \in hand'[w]
    <3>1. PICK g \in handlers[w] : g.live /\ Works(g) = y
      BY <2>2 DEF hand
    <3>2. g # h
      BY <2>2, <3>1 DEF x
    <3> QED BY <1>5, <2>2, <3>1, <3>2 DEF hand
  <2> QED BY <2>1, <2>2
<1>9. hand'[w] = hand[w] \ {x}
  <2>1. hand'[w] \subseteq Work /\ hand[w] \subseteq Work
    BY DEF hand
  <2> QED BY <1>8, <2>1
<1>10. x \in hand[w] /\ x \notin ahead[s]
  <2>1. x \in hand[w]
    BY <1>1, <1>3 DEF hand, x
  <2> QED BY <1>0, <1>1, <2>1, AheadApart
<1>11. Balanced(load[w], ahead[s], hand[w] \ {x}, Append(up[s], m))
  <2>1. Balanced(load[w], ahead[s], hand[w], up[s])
    BY <1>1 DEF BooksInv, s
  <2>2. Works(m) \in Work /\ Works(m) \in hand[w] /\ Works(m) \notin ahead[s]
    BY <1>1, <1>10
  <2>3. m.type \in Verdict
    BY <1>2 DEF m
  <2>4. Balanced(load[w], ahead[s], hand[w] \ {Works(m)}, Append(up[s], m))
    BY <1>1, <2>1, <2>2, <2>3, BooksReported
  <2> QED BY <1>1, <2>4
<1>12. load' = load /\ \A t \in Stream : ahead'[t] = ahead[t]
  BY <1>3, AheadSame DEF load, Owns
<1>13. Balanced(load'[w], ahead'[s], hand'[w], up'[s])
  BY <1>1, <1>9, <1>11, <1>12
<1>14. Aside(w, s)
  <2>1. \A v \in Worker : v # w => hand'[v] = hand[v]
    BY <1>5 DEF hand
  <2> QED BY <1>1, <1>3, <1>5, <1>12, <2>1 DEF Aside
<1>15. Beating(handlers'[w])
  BY <1>5, <1>6 DEF BooksInv, Beating
<1>16. conn[w] = s
  BY DEF s
<1> QED BY <1>1, <1>13, <1>14, <1>15, <1>16, BooksMoved

LEMMA BeatKeepsBooks ==
    ASSUME DispatchInv, Wired, BooksInv, NEW w \in Worker, NEW h \in handlers[w], Beat(w, h)
    PROVE  BooksInv'
<1> DEFINE s == conn[w]
           m == [type |-> "beat", job |-> h.job, attempt |-> h.attempt]
<1>0. handlers \in [Worker -> SUBSET Handler]
  BY DEF DispatchInv, FlowTyped, WorkersTyped
<1>1. /\ s \in Stream /\ CanSend(w) /\ h \in Handler /\ m \in Message
      /\ up'[s] = Append(up[s], m) /\ \A t \in Stream : t # s => up'[t] = up[t]
      /\ up[s] \in Seq(Message)
  <2>1. SendUp(w, "beat", h) /\ "beat" \in Said
    BY DEF Beat, Said
  <2> QED BY <2>1, HandlerHasStream
<1>2. m.type \notin Verdict
  BY DEF Verdict
<1>3. h.beating /\ UNCHANGED <<pc, sending, jobs, conn, down, deliveries>>
  BY DEF Beat, lineVars, storeVars
<1>4. handlers' = [handlers EXCEPT ![w] =
          (handlers[w] \ {h}) \cup (IF ~h.live THEN {} ELSE {[h EXCEPT !.beating = CanSend(w)]})]
  BY DEF Beat
<1>5. [h EXCEPT !.beating = CanSend(w)] = h
  <2>1. CanSend(w) = TRUE /\ h.beating = TRUE
    <3>1. CanSend(w) \in BOOLEAN /\ h.beating \in BOOLEAN
      BY <1>1 DEF CanSend, Handler
    <3> QED BY <1>1, <1>3, <3>1
  <2> QED BY <1>1, <2>1 DEF Handler
<1> HIDE DEF s, m
<1>6. /\ handlers'[w] \subseteq handlers[w]
      /\ \A g \in handlers[w] : g.live => g \in handlers'[w]
      /\ \A v \in Worker : v # w => handlers'[v] = handlers[v]
  BY <1>0, <1>4, <1>5
<1>7. \A v \in Worker : hand'[v] = hand[v]
  BY <1>6 DEF hand
<1>8. load' = load /\ \A t \in Stream : ahead'[t] = ahead[t]
  BY <1>3, AheadSame DEF load, Owns
<1>9. Balanced(load[w], ahead[s], hand[w], Append(up[s], m))
  <2>1. Balanced(load[w], ahead[s], hand[w], up[s])
    BY <1>1 DEF BooksInv, s
  <2>2. m.type \notin Verdict
    BY <1>2 DEF m
  <2> QED BY <1>1, <2>1, <2>2, BooksBeaten
<1>10. Balanced(load'[w], ahead'[s], hand'[w], up'[s])
  BY <1>1, <1>7, <1>8, <1>9
<1>11. Aside(w, s)
  BY <1>1, <1>3, <1>6, <1>7, <1>8 DEF Aside
<1>12. Beating(handlers'[w])
  BY <1>6 DEF BooksInv, Beating
<1>13. conn[w] = s
  BY DEF s
<1> QED BY <1>1, <1>10, <1>11, <1>12, <1>13, BooksMoved
-----------------------------------------------------------------------------
(* The results, with late beats.                                           *)
CalmInv == Wired /\ NoneLapsed /\ BackoffsFit /\ BooksInv

LEMMA BooksInductive ==
    ASSUME Calm, DispatchInv, LeaseDiscipline, HandedOut, LostInv, CalmInv,
           [DispatchNext]_dispatchVars
    PROVE  CalmInv'
<1>0. Wired /\ NoneLapsed /\ BackoffsFit /\ BooksInv
  BY DEF CalmInv
<1>1. Wired' /\ NoneLapsed' /\ BackoffsFit'
  BY <1>0, WiredInductive, RowsStayGood
<1>2. BooksInv'
  <2>1. ASSUME NEW w \in Worker, WorkerStep(w)
        PROVE  BooksInv'
    <3>1. CASE Receive(w)
      BY <1>0, <3>1, ReceiveKeepsBooks
    <3>2. ASSUME NEW h \in handlers[w], Report(w, h, "completed") \/ Report(w, h, "failed")
          PROVE  BooksInv'
      BY <1>0, <3>2, ReportKeepsBooks DEF Verdict
    <3>3. ASSUME NEW h \in handlers[w], Beat(w, h)
          PROVE  BooksInv'
      BY <1>0, <3>3, BeatKeepsBooks
    <3> QED BY <2>1, <3>1, <3>2, <3>3 DEF WorkerStep
  <2>2. ASSUME NEW s \in Stream, Deliver(s) \/ Answer(s)
        PROVE  BooksInv'
    BY <1>0, <2>2, DeliverKeepsBooks, AnswerKeepsBooks
  <2>3. ASSUME NEW j \in Job, PushClaim(j)
        PROVE  BooksInv'
    BY <1>0, <2>3, ClaimKeepsBooks
  <2>4. ASSUME NEW w \in Worker, NEW s \in Stream, Connect(w, s)
        PROVE  BooksInv'
    BY <1>0, <2>4, ConnectKeepsBooks
  <2>5. CASE \/ \E s \in Stream : Register(s)
             \/ Push("enqueue") \/ Push("timer") \/ TimerFires \/ PushDone
             \/ \E j \in Job : Enqueue(j) \/ EnqueueUnpushed(j)
             \/ DispatchTick
             \/ UNCHANGED dispatchVars
    BY <1>0, <2>5, LineKeepsBooks
  <2> QED BY <1>0, <2>1, <2>2, <2>3, <2>4, <2>5, CalmStep DEF DispatchInv
<1> QED BY <1>1, <1>2 DEF CalmInv

LEMMA BooksInit ==
    ASSUME DispatchInit
    PROVE  CalmInv
<1>1. Wired /\ NoneLapsed /\ BackoffsFit
  BY SteadyInit DEF SteadyInv
<1>2. \A w \in Worker : load[w] = {}
  BY InitRows DEF DispatchInit, load, Owns, Work
<1>3. \A s \in Stream : ahead[s] = {}
  BY DEF DispatchInit, ahead, Coming, Has
<1>4. BooksInv
  BY <1>2, <1>3, DispatchAssumption DEF DispatchInit, BooksInv
<1> QED BY <1>1, <1>4 DEF CalmInv

LEMMA CalmInvariant ==
    ASSUME Calm
    PROVE  DispatchSpec => [](DispatchInv /\ CalmInv)
<1>1. DispatchInit => CalmInv
  BY BooksInit
<1>2. DispatchInv /\ LeaseDiscipline /\ HandedOut /\ LostInv /\ CalmInv
        /\ [DispatchNext]_dispatchVars => CalmInv'
  BY BooksInductive
<1> QED BY <1>1, <1>2, DispatchInvariant, DispatchUsesStore, HandedOutInvariant,
           LostInvariant, PTL DEF DispatchSpec

(* A leased job is accounted for, the very attempt of it, with beats that  *)
(* come late and however many jobs a worker is handed at once: while       *)
(* streams, processes and statements hold and backoffs fit, no attempt is  *)
(* lost between the claim, the channel, the wire, the worker's goroutine   *)
(* and the answer to its report.                                           *)
THEOREM OwnedIsInFlightHolds ==
    ASSUME Calm
    PROVE  DispatchSpec => []OwnedIsInFlight
<1>1. DispatchInv /\ CalmInv => OwnedIsInFlight
  <2> SUFFICES ASSUME DispatchInv, CalmInv, NEW j \in Job, NEW w \in Worker, Owns(w, j)
               PROVE  \/ \E h \in handlers[w] : h.live /\ Works(h) = Current(j)
                      \/ \E s \in Stream : of[s] = w /\
                            \/ deliveries[s] = <<Current(j)>>
                            \/ sending # NULL /\ sending.to = s /\ sending.work = Current(j)
                            \/ Has(down[s], {"assigned"}, Current(j))
                            \/ Has(up[s], {"completed", "failed"}, Current(j))
    BY DEF OwnedIsInFlight
  <2> DEFINE x == Current(j)
  <2>0. Wired /\ BooksInv /\ StoreTypeOK
    BY DEF CalmInv, DispatchInv
  <2>1. x \in Work /\ x.job = j /\ x.attempt = jobs[j].retry_count + 1
    BY <2>0, RowTypes DEF Current, Work
  <2> HIDE DEF x
  <2>2. x \in load[w]
    BY <2>1 DEF load
  <2>3. PICK s \in Stream : conn[w] = s
    BY <2>0, <2>2 DEF Wired, BooksInv
  <2>4. of[s] = w
    BY <2>0, <2>3, StreamOfWorker
  <2>5. x \in ahead[s] \/ x \in hand[w] \/ \E i \in Pos : Ruled(up[s], i, x)
    BY <2>0, <2>1, <2>2, <2>3 DEF BooksInv, Balanced
  <2>6. CASE x \in ahead[s]
    BY <2>4, <2>6 DEF ahead, Coming, x
  <2>7. CASE x \in hand[w]
    BY <2>7 DEF hand, x
  <2>8. CASE \E i \in Pos : Ruled(up[s], i, x)
    <3>1. Has(up[s], {"completed", "failed"}, x)
      BY <2>8 DEF Ruled, Has, Verdict
    <3> QED BY <2>4, <3>1 DEF x
  <2> QED BY <2>5, <2>6, <2>7, <2>8
<1> QED BY <1>1, CalmInvariant, PTL

(* A report settles the attempt it is about, although it names only job    *)
(* and worker, with beats that come late and with a worker that was freed  *)
(* twice: under the same hypothesis it is never counted against a later    *)
(* attempt that the same worker was handed since.                          *)
THEOREM ReportSettlesItsAttemptHolds ==
    ASSUME Calm
    PROVE  DispatchSpec => ReportSettlesItsAttempt
<1>1. ASSUME DispatchInv, CalmInv, NEW s \in Stream, Answer(s) \/ AnswerError(s),
             jobs' # jobs, Head(up[s]).type # "beat"
      PROVE  Works(Head(up[s])) = Current(Head(up[s]).job)
  <2> DEFINE m == Head(up[s])
             x == Works(m)
  <2>1. Wired /\ BooksInv /\ pc[s] = "select" /\ up[s] # <<>> /\ broken[s] = FALSE
    BY <1>1 DEF CalmInv, Wired, Answer, AnswerError
  <2>2. /\ x \in Work /\ x.job = m.job /\ (m.type \in Verdict => x \in load[of[s]])
        /\ of[s] \in Worker
    BY <1>1, <2>1, VerdictOwned
  <2>3. Applied(of[s], m)
    BY <1>1 DEF Answer, AnswerError, Refused, storeVars
  <2>4. m.type \in Verdict
    BY <1>1, <2>3 DEF Applied, Verdict
  <2> HIDE DEF m, x
  <2>5. x.attempt = jobs[x.job].retry_count + 1
    BY <2>2, <2>4 DEF load
  <2>6. x = Current(m.job)
    BY <2>2, <2>5, WorksOfWork DEF Current
  <2> QED BY <2>6 DEF m, x
<1>2. ASSUME DispatchInv, CalmInv, [DispatchNext]_dispatchVars
      PROVE  [\A s \in Stream : (Answer(s) \/ AnswerError(s)) /\ jobs' # jobs =>
                 LET m == Head(up[s])
                 IN  m.type # "beat" => Works(m) = Current(m.job)]_dispatchVars
  BY <1>1, <1>2
<1> QED BY <1>2, CalmInvariant, PTL DEF DispatchSpec, ReportSettlesItsAttempt
=============================================================================
