--------------------------- MODULE DispatchProofs ---------------------------
(***************************************************************************)
(* Proofs about Dispatch for any number of jobs, workers and streams and   *)
(* for every set of faults: what the dispatcher keeps up whatever stalls,  *)
(* breaks, dies and fails.                                                 *)
(***************************************************************************)
EXTENDS Dispatch, JobStoreProofs, WellFoundedInduction, FiniteSetTheorems,
        SequenceTheorems

(***************************************************************************)
(* The inductive invariant, in parts.  The line: a handler that has the    *)
(* mutex is registering; whoever waits has a handler; and a worker waits   *)
(* once, which is what lets forget, dropping one waiter, drop its own.     *)
(***************************************************************************)
PcState == {"unused", "register", "select", "forget", "gone"}
LineTyped ==
    /\ pc \in [Stream -> PcState]
    /\ of \in [Stream -> Worker \cup {NoWorker}]
    /\ broken \in [Stream -> BOOLEAN]
    /\ waiters \in Seq(Stream)
    /\ mu \in Goroutine \cup {"free"}
LineInv ==
    /\ \A s \in Stream : pc[s] # "unused" => of[s] \in Worker
    /\ mu \in Stream => pc[mu] = "register"
    /\ \A i \in 1..Len(waiters) : pc[waiters[i]] \in {"register", "select", "forget"}
    /\ \A i, k \in 1..Len(waiters) : of[waiters[i]] = of[waiters[k]] => i = k

(* What travels: deliveries, messages and the work in the workers' hands.  *)
Message == [type : {"beat", "completed", "failed", "assigned", "lost", "result"},
            job : Job, attempt : Nat]
Cell == [to : Stream, work : Work]
ChannelsTyped ==
    /\ deliveries \in [Stream -> Seq(Work)]
    /\ \A s \in Stream : Len(deliveries[s]) <= 1
    /\ sending \in Cell \cup {NULL}
WiresTyped ==
    /\ up \in [Stream -> Seq(Message)]
    /\ down \in [Stream -> Seq(Message)]
    /\ \A s \in Stream : Len(up[s]) <= MaxInTransit /\ Len(down[s]) <= MaxInTransit
WorkersTyped ==
    /\ conn \in [Worker -> Stream \cup {NoStream, "dead"}]
    /\ slot \in [Worker -> Work \cup {NULL}]
    /\ handlers \in [Worker -> SUBSET Handler]
FlowTyped == ChannelsTyped /\ WiresTyped /\ WorkersTyped

(* The clockwork.  A timer is set from the earliest run of a pending job,  *)
(* and there is an earliest one because only so many jobs were ever filed. *)
Filed == {j \in Job : jobs[j].state # "none"}
ClockTyped ==
    /\ IsFiniteSet(Filed)
    /\ timer \in Nat \cup {NULL}
    /\ firing \in BOOLEAN /\ enqueued \in BOOLEAN

DispatchInv == StoreTypeOK /\ LineTyped /\ LineInv /\ FlowTyped /\ ClockTyped

LEMMA DispatchInvTypes == DispatchInv => DispatchTypeOK /\ LineIsSound
BY DEF DispatchInv, LineTyped, LineInv, FlowTyped, ChannelsTyped, WiresTyped,
       WorkersTyped, ClockTyped, DispatchTypeOK, LineIsSound, PcState, Cell
-----------------------------------------------------------------------------
(* A line with one place dropped.                                          *)
LEMMA DroppedSeq ==
    ASSUME NEW S, NEW seq \in Seq(S), NEW i \in 1..Len(seq), NEW d,
           d = SubSeq(seq, 1, i - 1) \o SubSeq(seq, i + 1, Len(seq))
    PROVE  /\ d \in Seq(S)
           /\ Len(d) = Len(seq) - 1
           /\ \A k \in 1..Len(d) : d[k] = seq[IF k < i THEN k ELSE k + 1]
<1> DEFINE a == SubSeq(seq, 1, i - 1)
           b == SubSeq(seq, i + 1, Len(seq))
<1>0. Len(seq) \in Nat /\ i \in Nat /\ i >= 1 /\ i <= Len(seq)
  BY LenProperties
<1>1. /\ a \in Seq(S) /\ Len(a) = i - 1
      /\ \A k \in 1..Len(a) : a[k] = seq[k]
  <2>1. /\ SubSeq(seq, 1, i - 1) \in Seq(S)
        /\ Len(SubSeq(seq, 1, i - 1)) = IF 1 <= i - 1 THEN (i - 1) - 1 + 1 ELSE 0
        /\ \A k \in 1..((i - 1) - 1 + 1) : SubSeq(seq, 1, i - 1)[k] = seq[1 + k - 1]
    BY <1>0, SubSeqProperties
  <2> QED BY <1>0, <2>1
<1>2. /\ b \in Seq(S) /\ Len(b) = Len(seq) - i
      /\ \A k \in 1..Len(b) : b[k] = seq[i + k]
  <2>1. /\ b \in Seq(S)
        /\ Len(b) = IF i + 1 <= Len(seq) THEN Len(seq) - (i + 1) + 1 ELSE 0
        /\ \A k \in 1..(Len(seq) - (i + 1) + 1) : b[k] = seq[(i + 1) + k - 1]
    BY <1>0, SubSeqProperties
  <2> QED BY <1>0, <2>1
<1>3. d = a \o b
  OBVIOUS
<1> HIDE DEF a, b
<1>4. /\ a \o b \in Seq(S) /\ Len(a \o b) = Len(a) + Len(b)
      /\ \A k \in 1..(Len(a) + Len(b)) :
            (a \o b)[k] = IF k <= Len(a) THEN a[k] ELSE b[k - Len(a)]
  <2>1. a \in Seq(S) /\ b \in Seq(S)
    BY <1>1, <1>2
  <2> QED BY <2>1, ConcatProperties, Zenon
<1>5. /\ d \in Seq(S) /\ Len(d) = Len(seq) - 1
      /\ \A k \in 1..Len(d) : d[k] = IF k <= i - 1 THEN a[k] ELSE b[k - (i - 1)]
  <2>1. Len(a) + Len(b) = Len(seq) - 1
    BY <1>0, <1>1, <1>2
  <2>2. Len(a) = i - 1
    BY <1>1
  <2> QED BY <1>3, <1>4, <2>1, <2>2
<1>6. ASSUME NEW k \in 1..Len(d)
      PROVE  d[k] = seq[IF k < i THEN k ELSE k + 1]
  <2>0. k \in Int /\ 1 <= k /\ k <= Len(seq) - 1
    <3>1. Len(d) = Len(seq) - 1
      BY <1>5, Zenon
    <3>2. k \in 1..(Len(seq) - 1)
      BY <3>1, Zenon
    <3> QED BY <1>0, <3>2
  <2>1. CASE k < i
    <3>1. k \in 1..Len(a) /\ k <= i - 1
      BY <1>0, <1>1, <2>0, <2>1
    <3> QED BY <1>1, <1>5, <2>1, <3>1
  <2>2. CASE ~(k < i)
    <3>1. k - (i - 1) \in 1..(Len(seq) - i) /\ i + (k - (i - 1)) = k + 1 /\ ~(k <= i - 1)
      BY <1>0, <2>0, <2>2
    <3>2. k - (i - 1) \in 1..Len(b)
      BY <1>2, <3>1
    <3>3. b[k - (i - 1)] = seq[k + 1]
      BY <1>2, <3>1, <3>2
    <3> QED BY <1>5, <2>2, <3>1, <3>3
  <2> QED BY <2>1, <2>2
<1> QED BY <1>5, <1>6
-----------------------------------------------------------------------------
(* Every step of the dispatcher is a step of the store or leaves the table *)
(* alone: whoever claims is a worker, and the term presented is a term.    *)
LEMMA HeadInLine ==
    ASSUME LineTyped, LineInv, waiters # <<>>
    PROVE  /\ Head(waiters) \in Stream /\ Head(waiters) = waiters[1]
           /\ 1 \in 1..Len(waiters) /\ of[Head(waiters)] \in Worker
           /\ pc[Head(waiters)] \in {"register", "select", "forget"}
<1>1. waiters \in Seq(Stream) /\ Len(waiters) \in Nat
  BY LenProperties DEF LineTyped
<1>2. Head(waiters) \in Stream /\ Len(waiters) # 0
  BY <1>1, HeadTailProperties
<1>3. 1 \in 1..Len(waiters) /\ Head(waiters) = waiters[1]
  BY <1>1, <1>2
<1> QED BY <1>2, <1>3 DEF LineInv

LEMMA AppliedIsStore ==
    ASSUME NEW w \in Worker, NEW m \in Message, Applied(w, m)
    PROVE  StoreNext
<1>1. m.job \in Job
  BY DEF Message
<1> QED BY <1>1 DEF Applied, StoreNext

LEMMA HeadMessage ==
    ASSUME FlowTyped, NEW s \in Stream, up[s] # <<>>
    PROVE  Head(up[s]) \in Message /\ Tail(up[s]) \in Seq(Message)
           /\ Len(Tail(up[s])) <= MaxInTransit
<1>1. up[s] \in Seq(Message) /\ Len(up[s]) <= MaxInTransit
  BY DEF FlowTyped, WiresTyped
<1>2. Len(up[s]) \in Nat
  BY <1>1, LenProperties
<1>3. Head(up[s]) \in Message /\ Tail(up[s]) \in Seq(Message)
      /\ Len(Tail(up[s])) = Len(up[s]) - 1
  BY <1>1, HeadTailProperties
<1> QED BY <1>1, <1>2, <1>3, DispatchAssumption

LEMMA DispatchStoreStep ==
    ASSUME LineTyped, LineInv, FlowTyped, [DispatchNext]_dispatchVars
    PROVE  [StoreNext]_storeVars
<1>0. 1 \in Term /\ Reign1 = 1
  BY DispatchAssumption DEF Reign1
<1>1. ASSUME NEW s \in Stream, ServerStep(s)
      PROVE  [StoreNext]_storeVars
  <2>1. CASE Answer(s) \/ AnswerError(s)
    <3>1. /\ pc[s] = "select" /\ up[s] # <<>>
          /\ UNCHANGED storeVars \/ Applied(of[s], Head(up[s]))
      BY <2>1 DEF Answer, AnswerError, Refused
    <3>2. of[s] \in Worker
      BY <3>1 DEF LineInv
    <3>3. Head(up[s]) \in Message
      BY <3>1, HeadMessage
    <3> QED BY <3>1, <3>2, <3>3, AppliedIsStore
  <2>2. CASE Register(s) \/ Forget(s) \/ Deliver(s) \/ HandlerEnds(s)
    BY <2>2 DEF Register, Forget, Deliver, HandlerEnds
  <2> QED BY <1>1, <2>1, <2>2 DEF ServerStep
<1>2. ASSUME NEW j \in Job, PushClaim(j)
      PROVE  [StoreNext]_storeVars
  <2>1. waiters # <<>> /\ DequeueJob(1, of[Head(waiters)], j)
    BY <1>0, <1>2 DEF PushClaim
  <2> QED BY <1>0, <2>1, HeadInLine DEF StoreNext
<1>3. CASE PushError
  <2>1. /\ waiters # <<>>
        /\ UNCHANGED storeVars \/ \E j \in Job : DequeueJob(1, of[Head(waiters)], j)
    BY <1>0, <1>3 DEF PushError
  <2> QED BY <1>0, <2>1, HeadInLine DEF StoreNext
<1>4. ASSUME NEW j \in Job, Enqueue(j) \/ EnqueueUnpushed(j)
      PROVE  [StoreNext]_storeVars
  BY <1>4 DEF Enqueue, EnqueueUnpushed, StoreNext
<1>5. CASE Reap
  BY <1>0, <1>5 DEF Reap, StoreNext
<1>6. CASE DispatchTick
  BY <1>6 DEF DispatchTick, StoreNext
<1>7. ASSUME NEW w \in Worker, WorkerStep(w)
      PROVE  [StoreNext]_storeVars
  BY <1>7 DEF WorkerStep, Receive, Report, Beat
<1>8. CASE \/ \E s \in Stream : Break(s)
           \/ Push("enqueue") \/ Push("timer") \/ PushDone \/ TimerFires
           \/ \E w \in Worker : Disconnected(w)
           \/ \E w \in Worker : WorkerCrash(w)
           \/ \E w \in Worker, s \in Stream : Connect(w, s)
  BY <1>8 DEF Break, Push, PushDone, TimerFires, Disconnected, WorkerCrash, Connect
<1>9. CASE UNCHANGED dispatchVars
  BY <1>9 DEF dispatchVars
<1> QED BY <1>1, <1>2, <1>3, <1>4, <1>5, <1>6, <1>7, <1>8, <1>9 DEF DispatchNext
-----------------------------------------------------------------------------
(* The line.                                                               *)

(* A handler leaves its select: the line does not mind.                    *)
LEMMA SelectLeft ==
    ASSUME LineTyped, LineInv, NEW s \in Stream, pc[s] = "select",
           NEW x \in {"register", "select", "forget"}, pc' = [pc EXCEPT ![s] = x],
           UNCHANGED <<of, broken, waiters, mu>>
    PROVE  LineTyped' /\ LineInv'
<1>1. LineTyped'
  BY DEF LineTyped, PcState
<1>2. waiters \in [1..Len(waiters) -> Stream]
  BY LenProperties DEF LineTyped
<1>3. /\ \A t \in Stream : pc'[t] = IF t = s THEN x ELSE pc[t]
      /\ of' = of /\ waiters' = waiters /\ mu' = mu
  BY DEF LineTyped
<1>4. LineInv'
  <2>1. \A t \in Stream : pc'[t] # "unused" => of'[t] \in Worker
    BY <1>3 DEF LineInv
  <2>2. mu' \in Stream => pc'[mu'] = "register"
    BY <1>3 DEF LineInv
  <2>3. \A i \in 1..Len(waiters') : pc'[waiters'[i]] \in {"register", "select", "forget"}
    BY <1>2, <1>3 DEF LineInv
  <2>4. \A i, k \in 1..Len(waiters') : of'[waiters'[i]] = of'[waiters'[k]] => i = k
    BY <1>3 DEF LineInv
  <2> QED BY <2>1, <2>2, <2>3, <2>4 DEF LineInv
<1> QED BY <1>1, <1>4

(* Unlock takes no part of the line with it.                               *)
LEMMA UnlockKeepsLine ==
    ASSUME LineTyped, LineInv, Unlock, UNCHANGED <<of, broken, waiters>>
    PROVE  LineTyped' /\ LineInv'
<1>1. /\ mu' = "free" /\ mu' \notin Stream
      /\ \A t \in Stream : pc'[t] = IF mu = t THEN "select" ELSE pc[t]
      /\ of' = of /\ waiters' = waiters /\ broken' = broken
  BY DispatchAssumption DEF Unlock
<1>2. waiters \in [1..Len(waiters) -> Stream]
  BY LenProperties DEF LineTyped
<1>3. pc' \in [Stream -> PcState]
  BY DEF Unlock, LineTyped, PcState
<1>4. LineTyped'
  BY <1>1, <1>3 DEF LineTyped
<1>5. \A t \in Stream : pc'[t] # "unused" => of'[t] \in Worker
  BY <1>1 DEF LineInv
<1>6. \A i \in 1..Len(waiters') : pc'[waiters'[i]] \in {"register", "select", "forget"}
  BY <1>1, <1>2 DEF LineInv
<1>7. \A i, k \in 1..Len(waiters') : of'[waiters'[i]] = of'[waiters'[k]] => i = k
  BY <1>1 DEF LineInv
<1> QED BY <1>1, <1>4, <1>5, <1>6, <1>7 DEF LineInv

LEMMA RegisterKeepsLine ==
    ASSUME LineTyped, LineInv, NEW s \in Stream, Register(s)
    PROVE  LineTyped' /\ LineInv'
<1>0. /\ waiters \in Seq(Stream) /\ Len(waiters) \in Nat
      /\ waiters \in [1..Len(waiters) -> Stream]
  BY LenProperties DEF LineTyped
<1>1. CASE /\ pc' = [pc EXCEPT ![s] = "select"]
           /\ UNCHANGED <<waiters, mu>>
  <2>1. /\ \A t \in Stream : pc'[t] = IF t = s THEN "select" ELSE pc[t]
        /\ of' = of /\ waiters' = waiters /\ mu' = mu /\ broken' = broken
        /\ mu = "free" /\ mu \notin Stream /\ pc[s] = "register"
    BY <1>1, DispatchAssumption DEF LineTyped, Register
  <2>2. LineTyped'
    BY <1>1, <2>1 DEF LineTyped, PcState
  <2>3. \A t \in Stream : pc'[t] # "unused" => of'[t] \in Worker
    BY <2>1 DEF LineInv
  <2>4. \A i \in 1..Len(waiters') : pc'[waiters'[i]] \in {"register", "select", "forget"}
    BY <1>0, <2>1 DEF LineInv
  <2>5. \A i, k \in 1..Len(waiters') : of'[waiters'[i]] = of'[waiters'[k]] => i = k
    BY <2>1 DEF LineInv
  <2> QED BY <2>1, <2>2, <2>3, <2>4, <2>5 DEF LineInv
<1>2. CASE /\ ~InLine(of[s])
           /\ waiters' = Append(waiters, s)
           /\ mu' = s
           /\ UNCHANGED pc
  <2>1. /\ of' = of /\ pc' = pc /\ broken' = broken /\ pc[s] = "register"
        /\ \A i \in 1..Len(waiters) : of[waiters[i]] # of[s]
    BY <1>2 DEF Register, InLine
  <2>2. /\ waiters' \in Seq(Stream) /\ Len(waiters') = Len(waiters) + 1
        /\ \A i \in 1..Len(waiters) : waiters'[i] = waiters[i]
        /\ waiters'[Len(waiters) + 1] = s
    BY <1>0, <1>2, AppendProperties
  <2>3. LineTyped'
    BY <1>2, <2>1, <2>2 DEF LineTyped, Goroutine
  <2>4. ASSUME NEW i \in 1..Len(waiters')
        PROVE  \/ i \in 1..Len(waiters) /\ waiters'[i] = waiters[i]
               \/ i = Len(waiters) + 1 /\ waiters'[i] = s
    BY <1>0, <2>2
  <2>5. \A i \in 1..Len(waiters') : pc'[waiters'[i]] \in {"register", "select", "forget"}
    BY <2>1, <2>4 DEF LineInv
  <2>6. ASSUME NEW i \in 1..Len(waiters'), NEW k \in 1..Len(waiters'),
               of'[waiters'[i]] = of'[waiters'[k]]
        PROVE  i = k
    BY <2>1, <2>4, <2>6 DEF LineInv
  <2>7. \A t \in Stream : pc'[t] # "unused" => of'[t] \in Worker
    BY <2>1 DEF LineInv
  <2>8. mu' \in Stream => pc'[mu'] = "register"
    BY <1>2, <2>1
  <2> QED BY <2>3, <2>5, <2>6, <2>7, <2>8 DEF LineInv
<1> QED BY <1>1, <1>2 DEF Register

(* forget: were the handler's own stream in line, it would be the worker's *)
(* one waiter, and so the one that is dropped.                             *)
LEMMA ForgetKeepsLine ==
    ASSUME LineTyped, LineInv, NEW s \in Stream, Forget(s)
    PROVE  LineTyped' /\ LineInv'
<1>0. /\ waiters \in Seq(Stream) /\ Len(waiters) \in Nat
      /\ waiters \in [1..Len(waiters) -> Stream]
  BY LenProperties DEF LineTyped
<1>1. /\ \A t \in Stream : pc'[t] = IF t = s THEN "gone" ELSE pc[t]
      /\ pc' \in [Stream -> PcState]
      /\ of' = of /\ mu' = mu /\ broken' = broken
      /\ mu = "free" /\ mu \notin Stream /\ pc[s] = "forget"
  BY DispatchAssumption DEF LineTyped, Forget, PcState
<1>2. /\ waiters' \in Seq(Stream)
      /\ \A k \in 1..Len(waiters') : waiters'[k] # s
      /\ \A k \in 1..Len(waiters') : \E m \in 1..Len(waiters) : waiters'[k] = waiters[m]
      /\ \A k, l \in 1..Len(waiters') : of[waiters'[k]] = of[waiters'[l]] => k = l
  <2>1. CASE ~InLine(of[s]) /\ UNCHANGED waiters
    <3>1. \A k \in 1..Len(waiters) : of[waiters[k]] # of[s]
      BY <2>1 DEF InLine
    <3> QED BY <1>0, <2>1, <3>1 DEF LineInv
  <2>2. ASSUME NEW i \in 1..Len(waiters), of[waiters[i]] = of[s],
               waiters' = SubSeq(waiters, 1, i - 1)
                             \o SubSeq(waiters, i + 1, Len(waiters))
        PROVE  /\ waiters' \in Seq(Stream)
               /\ \A k \in 1..Len(waiters') : waiters'[k] # s
               /\ \A k \in 1..Len(waiters') :
                     \E m \in 1..Len(waiters) : waiters'[k] = waiters[m]
               /\ \A k, l \in 1..Len(waiters') : of[waiters'[k]] = of[waiters'[l]] => k = l
    <3> DEFINE at(k) == IF k < i THEN k ELSE k + 1
    <3>1. /\ waiters' \in Seq(Stream) /\ Len(waiters') = Len(waiters) - 1
          /\ \A k \in 1..Len(waiters') : waiters'[k] = waiters[at(k)]
      <4>1. waiters \in Seq(Stream) /\ i \in 1..Len(waiters)
        BY <1>0
      <4> QED BY ONLY <2>2, <4>1, DroppedSeq
    <3>2. ASSUME NEW k \in 1..Len(waiters')
          PROVE  at(k) \in 1..Len(waiters) /\ at(k) # i
      BY <1>0, <3>1
    <3>3. ASSUME NEW k \in 1..Len(waiters'), NEW l \in 1..Len(waiters'), at(k) = at(l)
          PROVE  k = l
      BY <1>0, <3>1, <3>3
    <3> HIDE DEF at
    <3>4. \A k \in 1..Len(waiters) : of[waiters[k]] = of[s] => k = i
      BY <2>2 DEF LineInv
    <3>5. \A k \in 1..Len(waiters') : waiters'[k] # s
      BY <3>1, <3>2, <3>4
    <3>6. \A k \in 1..Len(waiters') : \E m \in 1..Len(waiters) : waiters'[k] = waiters[m]
      BY <3>1, <3>2
    <3>7. \A k, l \in 1..Len(waiters') : of[waiters'[k]] = of[waiters'[l]] => k = l
      BY <3>1, <3>2, <3>3 DEF LineInv
    <3> QED BY <3>1, <3>5, <3>6, <3>7
  <2> QED BY <2>1, <2>2 DEF Forget
<1>3. LineTyped'
  BY <1>1, <1>2 DEF LineTyped
<1>4. \A t \in Stream : pc'[t] # "unused" => of'[t] \in Worker
  BY <1>1 DEF LineInv
<1>5. ASSUME NEW k \in 1..Len(waiters')
      PROVE  pc'[waiters'[k]] \in {"register", "select", "forget"}
  <2>1. PICK m \in 1..Len(waiters) : waiters'[k] = waiters[m]
    BY <1>2
  <2> QED BY <1>0, <1>1, <1>2, <2>1 DEF LineInv
<1>6. \A k, l \in 1..Len(waiters') : of'[waiters'[k]] = of'[waiters'[l]] => k = l
  BY <1>1, <1>2
<1> QED BY <1>1, <1>3, <1>4, <1>5, <1>6 DEF LineInv

LEMMA ClaimKeepsLine ==
    ASSUME LineTyped, LineInv, waiters # <<>>, waiters' = Tail(waiters),
           UNCHANGED <<pc, of, broken, mu>>
    PROVE  LineTyped' /\ LineInv'
<1>0. waiters \in Seq(Stream) /\ Len(waiters) \in Nat
  BY LenProperties DEF LineTyped
<1>1. /\ waiters' \in Seq(Stream) /\ Len(waiters') = Len(waiters) - 1
      /\ \A k \in 1..Len(waiters') : waiters'[k] = waiters[k + 1]
  BY <1>0, HeadTailProperties
<1>2. \A k \in 1..Len(waiters') : k + 1 \in 1..Len(waiters) /\ k \in Int
  BY <1>0, <1>1
<1>3. LineTyped'
  BY <1>1 DEF LineTyped
<1>4. \A k \in 1..Len(waiters') : pc'[waiters'[k]] \in {"register", "select", "forget"}
  BY <1>1, <1>2 DEF LineInv
<1>5. ASSUME NEW k \in 1..Len(waiters'), NEW l \in 1..Len(waiters'),
             of'[waiters'[k]] = of'[waiters'[l]]
      PROVE  k = l
  <2>1. k + 1 = l + 1
    BY <1>1, <1>2, <1>5 DEF LineInv
  <2> QED BY <1>2, <2>1
<1> QED BY <1>3, <1>4, <1>5 DEF LineInv

LEMMA ConnectKeepsLine ==
    ASSUME LineTyped, LineInv, NEW w \in Worker, NEW s \in Stream, Connect(w, s)
    PROVE  LineTyped' /\ LineInv'
<1>0. waiters \in [1..Len(waiters) -> Stream]
  BY LenProperties DEF LineTyped
<1>1. /\ \A t \in Stream : /\ pc'[t] = IF t = s THEN "register" ELSE pc[t]
                           /\ of'[t] = IF t = s THEN w ELSE of[t]
      /\ waiters' = waiters /\ mu' = mu /\ broken' = broken /\ pc[s] = "unused"
  BY DEF LineTyped, Connect, lineVars
<1>2. LineTyped'
  BY <1>1 DEF LineTyped, Connect, PcState
<1>3. \A t \in Stream : pc'[t] # "unused" => of'[t] \in Worker
  BY <1>1 DEF LineInv
<1>4. mu' \in Stream => pc'[mu'] = "register"
  BY <1>1 DEF LineInv
<1>5. \A k \in 1..Len(waiters) : waiters[k] \in Stream /\ waiters[k] # s
  BY <1>0, <1>1 DEF LineInv
<1>6. \A k \in 1..Len(waiters') : pc'[waiters'[k]] \in {"register", "select", "forget"}
  BY <1>1, <1>5 DEF LineInv
<1>7. \A k, l \in 1..Len(waiters') : of'[waiters'[k]] = of'[waiters'[l]] => k = l
  BY <1>1, <1>5 DEF LineInv
<1> QED BY <1>2, <1>3, <1>4, <1>6, <1>7 DEF LineInv

(* A step that leaves the line's variables alone, but may break streams or *)
(* take the mutex for Enqueue or the timer.                                *)
LEMMA LineUntouched ==
    ASSUME LineTyped, LineInv, UNCHANGED <<pc, of, waiters>>,
           broken' \in [Stream -> BOOLEAN],
           mu' = mu \/ mu' \in {"enqueue", "timer"}
    PROVE  LineTyped' /\ LineInv'
<1>1. LineTyped'
  BY DEF LineTyped, Goroutine
<1>2. "enqueue" \notin Stream /\ "timer" \notin Stream
  BY DispatchAssumption
<1>3. LineInv'
  BY <1>2 DEF LineInv
<1> QED BY <1>1, <1>3

LEMMA LineInductive ==
    ASSUME LineTyped, LineInv, [DispatchNext]_dispatchVars
    PROVE  LineTyped' /\ LineInv'
<1>0. broken \in [Stream -> BOOLEAN]
  BY DEF LineTyped
<1>1. ASSUME NEW s \in Stream, ServerStep(s)
      PROVE  LineTyped' /\ LineInv'
  <2>1. CASE Register(s)
    BY <2>1, RegisterKeepsLine
  <2>2. CASE Forget(s)
    BY <2>2, ForgetKeepsLine
  <2>3. CASE Deliver(s)
    BY <1>0, <2>3, LineUntouched DEF Deliver
  <2>4. CASE Answer(s) \/ AnswerError(s) \/ HandlerEnds(s)
    <3>1. /\ pc[s] = "select"
          /\ \E x \in {"register", "select", "forget"} : pc' = [pc EXCEPT ![s] = x]
          /\ UNCHANGED <<of, broken, waiters, mu>>
      BY <2>4 DEF Answer, AnswerError, HandlerEnds, Replied, lineVars
    <3> QED BY <3>1, SelectLeft
  <2> QED BY <1>1, <2>1, <2>2, <2>3, <2>4 DEF ServerStep
<1>2. ASSUME NEW s \in Stream, Break(s)
      PROVE  LineTyped' /\ LineInv'
  <2>1. broken' \in [Stream -> BOOLEAN] /\ UNCHANGED <<pc, of, waiters, mu>>
    BY <1>0, <1>2 DEF Break, lineVars
  <2> QED BY <2>1, LineUntouched
<1>3. CASE Push("enqueue") \/ Push("timer")
  <2>1. mu' \in {"enqueue", "timer"} /\ UNCHANGED <<pc, of, waiters, broken>>
    BY <1>3 DEF Push, streamVars
  <2> QED BY <1>0, <2>1, LineUntouched
<1>4. CASE PushDone \/ PushError
  BY <1>4, UnlockKeepsLine DEF PushDone, PushError
<1>5. ASSUME NEW j \in Job, PushClaim(j)
      PROVE  LineTyped' /\ LineInv'
  BY <1>5, ClaimKeepsLine DEF PushClaim
<1>6. CASE \/ TimerFires \/ Reap \/ DispatchTick
           \/ \E j \in Job : Enqueue(j)
           \/ \E j \in Job : EnqueueUnpushed(j)
           \/ \E w \in Worker : WorkerStep(w)
           \/ \E w \in Worker : Disconnected(w)
           \/ UNCHANGED dispatchVars
  <2>1. UNCHANGED <<pc, of, waiters, broken, mu>>
    BY <1>6 DEF TimerFires, Reap, DispatchTick, Enqueue, EnqueueUnpushed, WorkerStep,
                Receive, Report, Beat, Disconnected, dispatchVars, lineVars, streamVars
  <2> QED BY <1>0, <2>1, LineUntouched
<1>7. ASSUME NEW w \in Worker, WorkerCrash(w)
      PROVE  LineTyped' /\ LineInv'
  <2>1. broken' \in [Stream -> BOOLEAN] /\ UNCHANGED <<pc, of, waiters, mu>>
    BY <1>0, <1>7 DEF WorkerCrash, lineVars
  <2> QED BY <2>1, LineUntouched
<1>8. ASSUME NEW w \in Worker, NEW s \in Stream, Connect(w, s)
      PROVE  LineTyped' /\ LineInv'
  BY <1>8, ConnectKeepsLine
<1> QED BY <1>1, <1>2, <1>3, <1>4, <1>5, <1>6, <1>7, <1>8 DEF DispatchNext
-----------------------------------------------------------------------------
(* The clockwork.                                                          *)

(* Only Enqueue files a job, one at a time.                                *)
LEMMA FiledStaysFinite ==
    ASSUME StoreTypeOK, IsFiniteSet(Filed), [StoreNext]_storeVars
    PROVE  IsFiniteSet(Filed')
<1>0. jobs \in [Job -> Row]
  BY DEF StoreTypeOK
<1>1. SUFFICES \E i : Filed' \subseteq Filed \cup {i}
  <2>1. PICK i : Filed' \subseteq Filed \cup {i}
    BY <1>1
  <2>2. IsFiniteSet(Filed \cup {i})
    BY FS_AddElement
  <2> QED BY <2>1, <2>2, FS_Subset
<1>2. ASSUME NEW i \in Job, NEW status, NEW max, CreateJob(i, status, max)
      PROVE  \E k : Filed' \subseteq Filed \cup {k}
  <2>1. \A j \in Job : j # i => jobs'[j] = jobs[j]
    BY <1>0, <1>2 DEF CreateJob
  <2>2. Filed' \subseteq Filed \cup {i}
    BY <2>1 DEF Filed
  <2> QED BY <2>2
<1>3. SUFFICES ASSUME ~ \E j \in Job, status \in StatusIn, max \in MaxRetriesIn :
                           CreateJob(j, status, max)
               PROVE  \A j \in Job : jobs[j].state = "none" => jobs'[j].state = "none"
  BY <1>2, <1>3 DEF Filed
<1>4. SUFFICES ASSUME NEW j \in Job, jobs[j].state = "none"
               PROVE  jobs'[j].state = "none"
  OBVIOUS
<1>5. ASSUME NEW t, NEW w, NEW i \in Job,
             DequeueJob(t, w, i) \/ Complete(w, i) \/ FailJob(w, i) \/ HeartbeatJob(w, i)
      PROVE  jobs'[j].state = "none"
  <2>1. jobs[i].state \in {"pending", "processing"}
    BY <1>5 DEF DequeueJob, Complete, FailJob, HeartbeatJob, Visible, Owns
  <2>2. jobs'[j] = jobs[j]
    BY <1>0, <1>4, <1>5, <2>1 DEF DequeueJob, Complete, FailJob, HeartbeatJob
  <2> QED BY <1>4, <2>2
<1>6. ASSUME NEW t, ReapExpiredLeases(t)
      PROVE  jobs'[j].state = "none"
  <2>1. j \notin Swept(t)
    BY <1>4 DEF Swept, Expired
  <2> QED BY <1>4, <1>6, <2>1 DEF ReapExpiredLeases
<1>7. ASSUME NewPostgresStore
      PROVE  jobs'[j].state = "none"
  BY <1>4, <1>7 DEF NewPostgresStore
<1>8. ASSUME TickJobs
      PROVE  jobs'[j].state = "none"
  <2>1. jobs'[j] = Aged(jobs[j]) /\ jobs[j] \in Row
    BY <1>0, <1>8 DEF TickJobs
  <2> QED BY <1>4, <2>1 DEF Aged, Row
<1>9. ASSUME UNCHANGED storeVars
      PROVE  jobs'[j].state = "none"
  BY <1>4, <1>9 DEF storeVars
<1> QED BY <1>3, <1>5, <1>6, <1>7, <1>8, <1>9 DEF StoreNext

(* A finite set of numbers has a least one: take the smallest counter-     *)
(* example and remove an element from it.                                  *)
IsLeast(S, m) == m \in S /\ \A x \in S : m <= x
LEMMA FiniteHasLeast ==
    ASSUME NEW S \in SUBSET Int, IsFiniteSet(S), S # {}
    PROVE  \E m \in S : \A x \in S : m <= x
<1> DEFINE Bad(T) == T \subseteq Int /\ IsFiniteSet(T) /\ T # {} /\ \A m : ~IsLeast(T, m)
           Size == {n \in Nat : \E T : Bad(T) /\ Cardinality(T) = n}
<1>1. SUFFICES ASSUME Bad(S)
               PROVE  FALSE
  BY DEF IsLeast
<1>2. Size # {}
  BY <1>1, FS_CardinalityType
<1>3. PICK n \in Size : \A k \in Size : ~(<<k, n>> \in OpToRel(<, Nat))
  BY <1>2, WFMin, NatLessThanWellFounded
<1>4. n \in Nat /\ \A k \in Size : ~(k < n)
  BY <1>3 DEF OpToRel
<1>5. PICK T : Bad(T) /\ Cardinality(T) = n
  BY <1>3
<1>6. PICK x \in T : TRUE
  BY <1>5
<1> DEFINE U == T \ {x}
<1>7. IsFiniteSet(U) /\ Cardinality(U) = n - 1 /\ U \subseteq Int
  BY <1>5, <1>6, FS_RemoveElement
<1>8. Cardinality(U) \in Nat
  BY <1>7, FS_CardinalityType
<1>9. ~Bad(U)
  BY <1>4, <1>7, <1>8
<1>10. CASE U = {}
  <2>1. IsLeast(T, x)
    BY <1>5, <1>6, <1>10 DEF IsLeast
  <2> QED BY <1>5, <2>1
<1>11. CASE U # {}
  <2>1. PICK m : IsLeast(U, m)
    BY <1>7, <1>9, <1>11
  <2>2. m \in T /\ m \in Int /\ x \in Int /\ \A y \in T : y = x \/ m <= y
    BY <1>5, <1>6, <2>1 DEF IsLeast
  <2>3. IsLeast(T, IF m <= x THEN m ELSE x)
    BY <1>5, <1>6, <2>2 DEF IsLeast
  <2> QED BY <1>5, <2>3
<1> QED BY <1>10, <1>11

(* So the timer armLocked sets has a time to go off at.                    *)
LEMMA EarliestRunIsInt ==
    ASSUME StoreTypeOK, IsFiniteSet(Filed), Pending # {}
    PROVE  EarliestRun \in Int
<1> DEFINE T == {jobs[j].next_run_at : j \in Pending}
           f == [j \in Pending |-> jobs[j].next_run_at]
<1>1. \A j \in Job : jobs[j].next_run_at \in Int
  BY DEF StoreTypeOK, Row
<1>2. T \in SUBSET Int /\ T # {}
  BY <1>1 DEF Pending
<1>3. IsFiniteSet(Pending)
  <2>1. Pending \subseteq Filed
    BY DEF Pending, Filed
  <2> QED BY <2>1, FS_Subset
<1>4. f \in Surjection(Pending, T)
  BY DEF Surjection
<1>5. IsFiniteSet(T)
  BY <1>3, <1>4, FS_Surjection
<1>6. PICK m \in T : \A x \in T : m <= x
  BY <1>2, <1>5, FiniteHasLeast
<1>7. \A j \in Pending : m <= jobs[j].next_run_at
  BY <1>6
<1>8. EarliestRun \in T
  BY <1>6, <1>7 DEF EarliestRun
<1> QED BY <1>2, <1>8

LEMMA ClockInductive ==
    ASSUME StoreTypeOK, LineTyped, ClockTyped, [StoreNext]_storeVars,
           [DispatchNext]_dispatchVars
    PROVE  ClockTyped'
<1>0. IsFiniteSet(Filed') /\ NULL \notin Int
  BY FiledStaysFinite, StoreAssumption DEF ClockTyped
<1>1. SUFFICES timer' \in Nat \cup {NULL} /\ firing' \in BOOLEAN /\ enqueued' \in BOOLEAN
  BY <1>0 DEF ClockTyped
<1>2. CASE PushDone
  <2>1. firing' \in BOOLEAN /\ enqueued' \in BOOLEAN
    BY <1>2, Zenon DEF PushDone, Unlock, ClockTyped
  <2>2. CASE Pending # {} /\ timer' = Greatest(EarliestRun, 0)
    <3>1. EarliestRun \in Int
      BY <2>2, EarliestRunIsInt DEF ClockTyped
    <3> QED BY <2>1, <2>2, <3>1 DEF Greatest
  <2>3. CASE timer' = timer
    BY <2>1, <2>3 DEF ClockTyped
  <2> QED BY <1>2, <2>2, <2>3 DEF PushDone, Arm
<1>3. CASE PushError
  <2>1. firing' \in BOOLEAN /\ enqueued' \in BOOLEAN /\ timer' = timer
    BY <1>3, Zenon DEF PushError, Unlock, ClockTyped
  <2> QED BY <2>1 DEF ClockTyped
<1>4. CASE TimerFires
  BY <1>4 DEF TimerFires, ClockTyped
<1>5. CASE DispatchTick
  <2>1. /\ firing' = firing /\ enqueued' = enqueued
        /\ timer' = IF timer = NULL THEN NULL ELSE Countdown(timer, 0)
    BY <1>5 DEF DispatchTick
  <2>2. timer' \in Nat \cup {NULL}
    BY <2>1 DEF Countdown, Greatest, ClockTyped
  <2> QED BY <2>1, <2>2 DEF ClockTyped
<1>6. ASSUME NEW j \in Job, Enqueue(j)
      PROVE  timer' = timer /\ firing' = firing /\ enqueued' \in BOOLEAN
  BY <1>6 DEF Enqueue
<1>7. CASE \/ \E s \in Stream : ServerStep(s)
           \/ \E s \in Stream : Break(s)
           \/ Push("enqueue") \/ Push("timer") \/ Reap
           \/ \E j \in Job : PushClaim(j)
           \/ \E j \in Job : EnqueueUnpushed(j)
           \/ \E w \in Worker : WorkerStep(w)
           \/ \E w \in Worker : Disconnected(w)
           \/ \E w \in Worker : WorkerCrash(w)
           \/ \E w \in Worker, s \in Stream : Connect(w, s)
           \/ UNCHANGED dispatchVars
  <2>1. timer' = timer /\ firing' = firing /\ enqueued' = enqueued
    BY <1>7 DEF ServerStep, Register, Forget, Deliver, Answer, AnswerError, HandlerEnds,
                Break, Push, Reap, PushClaim, EnqueueUnpushed, WorkerStep, Receive, Report,
                Beat, Disconnected, WorkerCrash, Connect, dispatchVars, lineVars
  <2> QED BY <2>1 DEF ClockTyped
<1> QED BY <1>2, <1>3, <1>4, <1>5, <1>6, <1>7 DEF DispatchNext, ClockTyped
-----------------------------------------------------------------------------
(* What travels.                                                           *)

LEMMA SendDownTyped ==
    ASSUME WiresTyped, NEW s \in Stream, NEW msgs \in Seq(Message), SendDown(s, msgs),
           up' \in [Stream -> Seq(Message)],
           \A t \in Stream : Len(up'[t]) <= MaxInTransit
    PROVE  WiresTyped'
<1>1. CASE broken[s]
  BY <1>1 DEF SendDown, WiresTyped
<1>2. CASE ~broken[s]
  <2>1. down' = [down EXCEPT ![s] = down[s] \o msgs]
        /\ Len(down[s]) + Len(msgs) <= MaxInTransit
    BY <1>2 DEF SendDown
  <2>2. down[s] \in Seq(Message)
    BY DEF WiresTyped
  <2>3. down[s] \o msgs \in Seq(Message)
        /\ Len(down[s] \o msgs) = Len(down[s]) + Len(msgs)
    BY <2>2, ConcatProperties
  <2>4. down' \in [Stream -> Seq(Message)]
    BY <2>1, <2>3 DEF WiresTyped
  <2>5. \A t \in Stream : Len(down'[t]) <= MaxInTransit
    BY <2>1, <2>3 DEF WiresTyped
  <2> QED BY <2>4, <2>5 DEF WiresTyped
<1> QED BY <1>1, <1>2

LEMMA ReplyTyped ==
    ASSUME NEW m \in Message, NEW renewed \in BOOLEAN
    PROVE  Reply(m, renewed) \in Seq(Message) /\ <<>> \in Seq(Message)
<1>1. ASSUME NEW type \in {"lost", "result"}
      PROVE  [type |-> type, job |-> m.job, attempt |-> m.attempt] \in Message
  BY DEF Message
<1>2. \A x \in Message : <<x>> \in Seq(Message)
  OBVIOUS
<1> QED BY <1>1, <1>2 DEF Reply

LEMMA AnswerTyped ==
    ASSUME FlowTyped, NEW s \in Stream, Answer(s) \/ AnswerError(s)
    PROVE  FlowTyped'
<1> DEFINE m == Head(up[s])
<1>1. up[s] # <<>> /\ up' = [up EXCEPT ![s] = Tail(up[s])]
  BY DEF Answer, AnswerError
<1>2. m \in Message /\ Tail(up[s]) \in Seq(Message) /\ Len(Tail(up[s])) <= MaxInTransit
  BY <1>1, HeadMessage
<1>3. up' \in [Stream -> Seq(Message)] /\ \A t \in Stream : Len(up'[t]) <= MaxInTransit
  BY <1>1, <1>2 DEF FlowTyped, WiresTyped
<1>4. \E msgs \in Seq(Message) : SendDown(s, msgs)
  <2>1. /\ Reply(m, TRUE) \in Seq(Message) /\ Reply(m, FALSE) \in Seq(Message)
        /\ <<>> \in Seq(Message)
    BY <1>2, ReplyTyped
  <2>2. SendDown(s, Reply(m, TRUE)) \/ SendDown(s, Reply(m, FALSE)) \/ SendDown(s, <<>>)
    BY DEF Answer, AnswerError, Replied
  <2> QED BY <2>1, <2>2
<1>5. WiresTyped'
  BY <1>3, <1>4, SendDownTyped DEF FlowTyped
<1>6. UNCHANGED <<deliveries, sending, conn, slot, handlers>>
  BY DEF Answer, AnswerError, lineVars, workerVars
<1> QED BY <1>5, <1>6 DEF FlowTyped, ChannelsTyped, WorkersTyped

(* A channel holds one delivery.                                           *)
LEMMA OneDelivery ==
    ASSUME FlowTyped, NEW s \in Stream, deliveries[s] # <<>>
    PROVE  Head(deliveries[s]) \in Work /\ deliveries[s] = <<Head(deliveries[s])>>
<1>1. deliveries[s] \in Seq(Work) /\ Len(deliveries[s]) <= 1
  BY DEF FlowTyped, ChannelsTyped
<1>2. Head(deliveries[s]) \in Work /\ Len(deliveries[s]) \in Nat /\ Len(deliveries[s]) # 0
  BY <1>1, HeadTailProperties, LenProperties
<1>3. Len(deliveries[s]) = 1
  <2>1. \A n \in Nat : n <= 1 /\ n # 0 => n = 1
    OBVIOUS
  <2> QED BY <1>1, <1>2, <2>1, Zenon
<1> QED BY <1>1, <1>2, <1>3

LEMMA SingletonSeq ==
    ASSUME NEW x \in Work
    PROVE  <<x>> \in Seq(Work) /\ Len(<<x>>) = 1 /\ <<>> \in Seq(Work) /\ Len(<<>>) = 0
OBVIOUS

LEMMA DeliverTyped ==
    ASSUME FlowTyped, NEW s \in Stream, Deliver(s)
    PROVE  FlowTyped'
<1> DEFINE d == Head(deliveries[s])
           m == [type |-> "assigned", job |-> d.job, attempt |-> d.attempt]
<1>1. d \in Work
  BY OneDelivery DEF Deliver
<1>2. <<m>> \in Seq(Message) /\ SendDown(s, <<m>>)
  <2>1. m \in Message
    BY <1>1 DEF Work, Message
  <2>2. SendDown(s, <<m>>)
    BY DEF Deliver
  <2> HIDE DEF m
  <2> QED BY <2>1, <2>2
<1>3. WiresTyped'
  <2>1. up' = up
    BY DEF Deliver
  <2> HIDE DEF m
  <2> QED BY <1>2, <2>1, SendDownTyped DEF FlowTyped, WiresTyped
<1>4. ChannelsTyped'
  <2>1. CASE sending # NULL /\ sending.to = s
    <3>1. sending \in Cell /\ sending.work \in Work
      BY <2>1 DEF FlowTyped, ChannelsTyped, Cell
    <3>2. deliveries' = [deliveries EXCEPT ![s] = <<sending.work>>] /\ sending' = NULL
      BY <2>1 DEF Deliver
    <3> QED BY <3>1, <3>2, SingletonSeq DEF FlowTyped, ChannelsTyped
  <2>2. CASE ~(sending # NULL /\ sending.to = s)
    <3>1. deliveries' = [deliveries EXCEPT ![s] = <<>>] /\ sending' = sending
      BY <2>2 DEF Deliver
    <3> QED BY <1>1, <3>1, SingletonSeq DEF FlowTyped, ChannelsTyped
  <2> QED BY <2>1, <2>2
<1>5. UNCHANGED <<conn, slot, handlers>>
  BY DEF Deliver, workerVars
<1> QED BY <1>3, <1>4, <1>5 DEF FlowTyped, WorkersTyped

LEMMA ClaimTyped ==
    ASSUME StoreTypeOK, LineTyped, LineInv, FlowTyped, NEW j \in Job, PushClaim(j)
    PROVE  FlowTyped'
<1> DEFINE s == Head(waiters)
           d == [job |-> j, attempt |-> jobs[j].retry_count + 1]
<1>1. s \in Stream
  BY HeadInLine DEF PushClaim
<1>2. d \in Work
  BY RowTypes DEF Work
<1>3. \/ deliveries' = [deliveries EXCEPT ![s] = <<d>>] /\ sending' = sending
      \/ sending' = [to |-> s, work |-> d] /\ deliveries' = deliveries
  BY DEF PushClaim
<1>4. UNCHANGED <<up, down, conn, slot, handlers>>
  BY DEF PushClaim, workerVars
<1> HIDE DEF s, d
<1>5. ChannelsTyped'
  <2>1. CASE deliveries' = [deliveries EXCEPT ![s] = <<d>>] /\ sending' = sending
    BY <1>1, <1>2, <2>1, SingletonSeq DEF FlowTyped, ChannelsTyped
  <2>2. CASE sending' = [to |-> s, work |-> d] /\ deliveries' = deliveries
    <3>1. sending' \in Cell
      BY <1>1, <1>2, <2>2 DEF Cell
    <3> QED BY <2>2, <3>1 DEF FlowTyped, ChannelsTyped
  <2> QED BY <1>3, <2>1, <2>2
<1> QED BY <1>4, <1>5 DEF FlowTyped, WiresTyped, WorkersTyped

(* What is left of the goroutines when one has stopped.                    *)
LEMMA StoppedTyped ==
    ASSUME NEW hs \in SUBSET Handler, NEW h \in hs, NEW rest \in Stopped(hs, h)
    PROVE  rest \in SUBSET Handler
<1>1. [h EXCEPT !.live = FALSE] \in Handler
  BY DEF Handler
<1> QED BY <1>1 DEF Stopped

LEMMA ReceiveTyped ==
    ASSUME FlowTyped, NEW w \in Worker, Receive(w)
    PROVE  FlowTyped'
<1> DEFINE s == conn[w]
           m == Head(down[s])
           x == [job |-> m.job, attempt |-> m.attempt]
           hx == [job |-> x.job, attempt |-> x.attempt, live |-> TRUE, beating |-> TRUE]
<1>1. s \in Stream /\ down[s] # <<>> /\ down' = [down EXCEPT ![s] = Tail(down[s])]
  BY DEF Receive
<1>2. down[s] \in Seq(Message) /\ Len(down[s]) <= MaxInTransit
  BY <1>1 DEF FlowTyped, WiresTyped
<1>3. m \in Message /\ Tail(down[s]) \in Seq(Message)
      /\ Len(Tail(down[s])) = Len(down[s]) - 1 /\ Len(down[s]) \in Nat
  BY <1>1, <1>2, HeadTailProperties, LenProperties
<1>4. Len(Tail(down[s])) <= MaxInTransit
  BY <1>2, <1>3, DispatchAssumption
<1>5. WiresTyped'
  <2>1. up' = up
    BY DEF Receive
  <2> QED BY <1>1, <1>3, <1>4, <2>1 DEF FlowTyped, WiresTyped
<1>6. x \in Work /\ hx \in Handler
  BY <1>3 DEF Message, Work, Handler
<1>7. slot' \in [Worker -> Work \cup {NULL}]
  <2>1. \/ slot' = [slot EXCEPT ![w] = x]
        \/ slot' = [slot EXCEPT ![w] = IF slot[w] # NULL /\ slot[w].job = m.job
                                       THEN NULL ELSE slot[w]]
    BY DEF Receive
  <2> HIDE DEF m, x
  <2> QED BY <1>6, <2>1 DEF FlowTyped, WorkersTyped
<1>8. handlers' \in [Worker -> SUBSET Handler]
  <2>0. handlers \in [Worker -> SUBSET Handler]
    BY DEF FlowTyped, WorkersTyped
  <2>1. \/ handlers' = [handlers EXCEPT ![w] = handlers[w] \cup {hx}]
        \/ \E h \in handlers[w] : \E hs \in Stopped(handlers[w], h) :
              handlers' = [handlers EXCEPT ![w] = hs]
        \/ handlers' = handlers
    BY DEF Receive
  <2> HIDE DEF hx
  <2> QED BY <1>6, <2>0, <2>1, StoppedTyped
<1>9. UNCHANGED <<deliveries, sending, conn>>
  BY DEF Receive, lineVars
<1> QED BY <1>5, <1>7, <1>8, <1>9 DEF FlowTyped, ChannelsTyped, WorkersTyped

LEMMA SendUpTyped ==
    ASSUME FlowTyped, NEW w \in Worker, NEW h \in Handler, UNCHANGED down,
           NEW type \in {"beat", "completed", "failed"}, SendUp(w, type, h)
    PROVE  WiresTyped'
<1>1. CASE CanSend(w)
  <2> DEFINE s == conn[w]
             m == [type |-> type, job |-> h.job, attempt |-> h.attempt]
  <2>1. s \in Stream /\ Len(up[s]) < MaxInTransit /\ up' = [up EXCEPT ![s] = Append(up[s], m)]
    BY <1>1 DEF SendUp, CanSend
  <2>2. m \in Message
    BY DEF Message, Handler
  <2>3. up[s] \in Seq(Message) /\ Len(up[s]) \in Nat
    BY <2>1, LenProperties DEF FlowTyped, WiresTyped
  <2> HIDE DEF m
  <2>4. Append(up[s], m) \in Seq(Message) /\ Len(Append(up[s], m)) = Len(up[s]) + 1
    BY <2>2, <2>3, AppendProperties
  <2>5. Len(Append(up[s], m)) <= MaxInTransit
    BY <2>1, <2>3, <2>4, DispatchAssumption
  <2> QED BY <2>1, <2>4, <2>5 DEF FlowTyped, WiresTyped
<1>2. CASE ~CanSend(w)
  BY <1>2 DEF SendUp, FlowTyped, WiresTyped
<1> QED BY <1>1, <1>2

LEMMA BeatTyped ==
    ASSUME FlowTyped, NEW w \in Worker, NEW h \in handlers[w], Beat(w, h)
    PROVE  FlowTyped'
<1>1. h \in Handler /\ handlers[w] \in SUBSET Handler
  BY DEF FlowTyped, WorkersTyped
<1>2. [h EXCEPT !.beating = CanSend(w)] \in Handler
  <2>1. CanSend(w) \in BOOLEAN
    BY DEF CanSend
  <2> QED BY <1>1, <2>1 DEF Handler
<1>3. (handlers[w] \ {h}) \cup (IF ~h.live THEN {} ELSE {[h EXCEPT !.beating = CanSend(w)]})
         \in SUBSET Handler
  BY <1>1, <1>2
<1>4. WiresTyped'
  BY <1>1, SendUpTyped DEF Beat
<1>5. handlers' \in [Worker -> SUBSET Handler]
  BY <1>3 DEF Beat, FlowTyped, WorkersTyped
<1>6. UNCHANGED <<deliveries, sending, conn, slot>>
  BY DEF Beat, lineVars
<1> QED BY <1>4, <1>5, <1>6 DEF FlowTyped, ChannelsTyped, WorkersTyped

LEMMA ReportTyped ==
    ASSUME FlowTyped, NEW w \in Worker, NEW h \in handlers[w],
           NEW verdict \in {"completed", "failed"}, Report(w, h, verdict)
    PROVE  FlowTyped'
<1>1. h \in Handler /\ handlers[w] \in SUBSET Handler
  BY DEF FlowTyped, WorkersTyped
<1>2. WiresTyped'
  BY <1>1, SendUpTyped DEF Report
<1>3. PICK hs \in Stopped(handlers[w], h) : handlers' = [handlers EXCEPT ![w] = hs]
  BY DEF Report
<1>4. hs \in SUBSET Handler
  BY <1>1, <1>3, StoppedTyped
<1>5. handlers' \in [Worker -> SUBSET Handler]
  BY <1>3, <1>4 DEF FlowTyped, WorkersTyped
<1>6. UNCHANGED <<deliveries, sending, conn, slot>>
  BY DEF Report, lineVars
<1> QED BY <1>2, <1>5, <1>6 DEF FlowTyped, ChannelsTyped, WorkersTyped

LEMMA FlowInductive ==
    ASSUME StoreTypeOK, LineTyped, LineInv, FlowTyped, [DispatchNext]_dispatchVars
    PROVE  FlowTyped'
<1>1. ASSUME NEW s \in Stream, Answer(s) \/ AnswerError(s)
      PROVE  FlowTyped'
  BY <1>1, AnswerTyped
<1>2. ASSUME NEW s \in Stream, Deliver(s)
      PROVE  FlowTyped'
  BY <1>2, DeliverTyped
<1>3. ASSUME NEW j \in Job, PushClaim(j)
      PROVE  FlowTyped'
  BY <1>3, ClaimTyped
<1>4. ASSUME NEW w \in Worker, WorkerStep(w)
      PROVE  FlowTyped'
  BY <1>4, ReceiveTyped, ReportTyped, BeatTyped DEF WorkerStep
<1>5. ASSUME NEW w \in Worker, \/ Disconnected(w) \/ WorkerCrash(w)
                               \/ \E s \in Stream : Connect(w, s)
      PROVE  FlowTyped'
  <2>1. UNCHANGED <<deliveries, sending, up>>
    BY <1>5 DEF Disconnected, WorkerCrash, Connect, lineVars
  <2>2. WorkersTyped'
    BY <1>5 DEF Disconnected, WorkerCrash, Connect, FlowTyped, WorkersTyped
  <2>3. <<>> \in Seq(Message) /\ Len(<<>>) <= MaxInTransit
    BY DispatchAssumption
  <2>4. down' = down \/ down' = [down EXCEPT ![conn[w]] = <<>>]
    BY <1>5 DEF Disconnected, WorkerCrash, Connect
  <2>5. WiresTyped'
    BY <2>1, <2>3, <2>4 DEF FlowTyped, WiresTyped
  <2> QED BY <2>1, <2>2, <2>5 DEF FlowTyped, ChannelsTyped
<1>6. CASE \/ \E s \in Stream : Register(s) \/ Forget(s) \/ HandlerEnds(s) \/ Break(s)
           \/ Push("enqueue") \/ Push("timer") \/ PushDone \/ PushError \/ TimerFires
           \/ \E j \in Job : Enqueue(j) \/ EnqueueUnpushed(j)
           \/ Reap \/ DispatchTick \/ UNCHANGED dispatchVars
  <2>1. UNCHANGED <<deliveries, sending, up, down, conn, slot, handlers>>
    BY <1>6 DEF Register, Forget, HandlerEnds, Break, Push, PushDone, PushError, TimerFires,
                Enqueue, EnqueueUnpushed, Reap, DispatchTick, dispatchVars, lineVars,
                streamVars, workerVars
  <2> QED BY <2>1 DEF FlowTyped, ChannelsTyped, WiresTyped, WorkersTyped
<1> QED BY <1>1, <1>2, <1>3, <1>4, <1>5, <1>6 DEF DispatchNext, ServerStep
-----------------------------------------------------------------------------
(* DispatchInv holds throughout: the typing and the line, for every set of *)
(* faults.                                                                 *)
LEMMA DispatchInitInv == DispatchInit => DispatchInv
<1> SUFFICES ASSUME DispatchInit
             PROVE  DispatchInv
  OBVIOUS
<1>1. StoreTypeOK
  BY DEF DispatchInit, StoreInit, StoreTypeOK, NewRow, Row
<1>2. /\ waiters = <<>> /\ waiters \in Seq(Stream) /\ Len(waiters) = 0
      /\ mu = "free" /\ mu \notin Stream
  BY DispatchAssumption DEF DispatchInit
<1>3. LineTyped /\ LineInv
  BY <1>2 DEF DispatchInit, LineTyped, LineInv, PcState
<1>4. FlowTyped
  <2>1. /\ <<>> \in Seq(Work) /\ <<>> \in Seq(Message) /\ Len(<<>>) = 0
        /\ MaxInTransit \in Nat
    BY DispatchAssumption
  <2> QED BY <2>1 DEF DispatchInit, FlowTyped, ChannelsTyped, WiresTyped, WorkersTyped
<1>5. ClockTyped
  <2>1. Filed = {}
    BY InitRows DEF DispatchInit, Filed
  <2>2. IsFiniteSet(Filed)
    BY <2>1, FS_EmptySet
  <2> QED BY <2>2 DEF DispatchInit, ClockTyped
<1> QED BY <1>1, <1>3, <1>4, <1>5 DEF DispatchInv

LEMMA DispatchInvariant == DispatchSpec => []DispatchInv
<1>1. DispatchInv /\ [DispatchNext]_dispatchVars => DispatchInv'
  <2> SUFFICES ASSUME DispatchInv, [DispatchNext]_dispatchVars
               PROVE  DispatchInv'
    OBVIOUS
  <2> USE DEF DispatchInv
  <2>1. [StoreNext]_storeVars
    BY DispatchStoreStep
  <2>2. StoreTypeOK'
    BY <2>1, StepRowwise DEF storeVars, StoreTypeOK
  <2>3. LineTyped' /\ LineInv'
    BY LineInductive
  <2>4. FlowTyped'
    BY FlowInductive
  <2>5. ClockTyped'
    BY <2>1, ClockInductive
  <2> QED BY <2>2, <2>3, <2>4, <2>5
<1> QED BY <1>1, DispatchInitInv, PTL DEF DispatchSpec

(* Everything keeps its type, with room for one delivery in a waiter's     *)
(* channel: a send that finds it full waits outside.                       *)
THEOREM DispatchTypeCorrect == DispatchSpec => []DispatchTypeOK
BY DispatchInvariant, DispatchInvTypes, PTL

(* However streams break and workers reconnect and register again, the     *)
(* dispatcher's line holds a worker once, and never a waiter whose handler *)
(* has returned: forget, which looks for the worker and not for the        *)
(* stream, cannot leave its own waiter behind.                             *)
THEOREM LineIsSoundHolds == DispatchSpec => []LineIsSound
BY DispatchInvariant, DispatchInvTypes, PTL

(* The dispatcher, its streams and the workers only ever drive the store   *)
(* through its operations, so what the store promises any caller holds     *)
(* with them as the callers: no job runs more often than its retries       *)
(* allow, the lease pair holds, and every job lives the life it may.       *)
THEOREM DispatchUsesStore ==
    DispatchSpec => /\ StoreSpec
                    /\ [](AttemptBound /\ LeaseDiscipline)
                    /\ ImplementsLifecycle
<1>1. DispatchInit => StoreInit
  BY DEF DispatchInit
<1>2. DispatchInv /\ [DispatchNext]_dispatchVars => [StoreNext]_storeVars
  BY DispatchStoreStep DEF DispatchInv
<1>3. DispatchSpec => StoreSpec
  BY <1>1, <1>2, DispatchInvariant, PTL DEF DispatchSpec, StoreSpec
<1> QED
  BY <1>3, AttemptBoundHolds, LeaseDisciplineHolds, StoreRefinesLifecycle, PTL
-----------------------------------------------------------------------------
(***************************************************************************)
(* One attempt, one place.  Where the attempts that were handed out are:   *)
(* in a waiter's channel, in the send that waits for one, at a position of *)
(* a stream on its way down, or in a running handler.                      *)
(***************************************************************************)
Pos == Nat \ {0}
channel == [s \in Stream |-> {x \in Work : deliveries[s] = <<x>>}]
blocked == {x \in Work : sending # NULL /\ sending.work = x}
wire == [s \in Stream |-> [i \in Pos |->
           {x \in Work : /\ i \in 1..Len(down[s])
                         /\ down[s][i].type = "assigned"
                         /\ Works(down[s][i]) = x}]]
hand == [w \in Worker |-> {x \in Work : \E h \in handlers[w] : h.live /\ Works(h) = x}]

(* No attempt is in two of the places c, b, n and h.                       *)
Apart(c, b, n, h) ==
    \A x \in Work :
       /\ \A s, t \in Stream : x \in c[s] /\ x \in c[t] => s = t
       /\ \A s \in Stream : ~(x \in c[s] /\ x \in b)
       /\ \A s, t \in Stream, i \in Pos : ~(x \in c[s] /\ x \in n[t][i])
       /\ \A s \in Stream, w \in Worker : ~(x \in c[s] /\ x \in h[w])
       /\ \A t \in Stream, i \in Pos : ~(x \in b /\ x \in n[t][i])
       /\ \A w \in Worker : ~(x \in b /\ x \in h[w])
       /\ \A s, t \in Stream, i, k \in Pos :
             x \in n[s][i] /\ x \in n[t][k] => s = t /\ i = k
       /\ \A s \in Stream, i \in Pos, w \in Worker : ~(x \in n[s][i] /\ x \in h[w])
       /\ \A v, w \in Worker : x \in h[v] /\ x \in h[w] => v = w

(* The attempts that are anywhere.                                         *)
Out(c, b, n, h) ==
    {x \in Work : \/ \E s \in Stream : x \in c[s]
                  \/ x \in b
                  \/ \E s \in Stream, i \in Pos : x \in n[s][i]
                  \/ \E w \in Worker : x \in h[w]}

(* No attempt is out that the row has not counted: those given up, and the *)
(* one in progress.                                                        *)
Ceiling(r) == r.retry_count + InProgressOrDone(r)
HandedOut ==
    /\ Apart(channel, blocked, wire, hand)
    /\ \A x \in Out(channel, blocked, wire, hand) : x.attempt <= Ceiling(jobs[x.job])

(* Four ways a step moves attempts about.  It drops some...                *)
LEMMA DroppedApart ==
    ASSUME NEW c, NEW b, NEW n, NEW h, NEW c2, NEW b2, NEW n2, NEW h2,
           Apart(c, b, n, h),
           \A s \in Stream : c2[s] \subseteq c[s],
           b2 \subseteq b,
           \A s \in Stream, i \in Pos : n2[s][i] \subseteq n[s][i],
           \A w \in Worker : h2[w] \subseteq h[w]
    PROVE  Apart(c2, b2, n2, h2) /\ Out(c2, b2, n2, h2) \subseteq Out(c, b, n, h)
<1>1. Out(c2, b2, n2, h2) \subseteq Out(c, b, n, h)
  BY DEF Out
<1>2. Apart(c2, b2, n2, h2)
  BY DEF Apart
<1> QED BY <1>1, <1>2

(* ... or hands one out that was nowhere, to one channel or to the send... *)
LEMMA ClaimedApart ==
    ASSUME NEW c, NEW b, NEW n, NEW h, NEW c2, NEW b2, NEW s \in Stream, NEW y \in Work,
           Apart(c, b, n, h), y \notin Out(c, b, n, h),
           \/ /\ \A t \in Stream : c2[t] \subseteq c[t] \cup (IF t = s THEN {y} ELSE {})
              /\ b2 \subseteq b
           \/ /\ \A t \in Stream : c2[t] \subseteq c[t]
              /\ b2 \subseteq b \cup {y}
    PROVE  /\ Apart(c2, b2, n, h)
           /\ Out(c2, b2, n, h) \subseteq Out(c, b, n, h) \cup {y}
<1>1. Out(c2, b2, n, h) \subseteq Out(c, b, n, h) \cup {y}
  BY DEF Out
<1>2. /\ \A t \in Stream : y \notin c[t]
      /\ y \notin b
      /\ \A t \in Stream, i \in Pos : y \notin n[t][i]
      /\ \A w \in Worker : y \notin h[w]
  BY DEF Out
<1>3. Apart(c2, b2, n, h)
  BY <1>2 DEF Apart
<1> QED BY <1>1, <1>3

(* ... or moves one from a channel onto the wire, and perhaps the one that *)
(* waited for room into the channel...                                     *)
Delivers(s, end, c, b, n, c2, b2, n2) ==
    /\ \A t \in Stream : t # s => c2[t] \subseteq c[t]
    /\ \/ c2[s] \subseteq b /\ b2 = {}
       \/ c2[s] = {} /\ b2 \subseteq b
    /\ \A t \in Stream, i \in Pos :
          n2[t][i] \subseteq n[t][i] \cup (IF t = s /\ i = end THEN c[s] ELSE {})
LEMMA DeliveredApart ==
    ASSUME NEW c, NEW b, NEW n, NEW h, NEW c2, NEW b2, NEW n2,
           NEW s \in Stream, NEW end \in Pos, Apart(c, b, n, h),
           Delivers(s, end, c, b, n, c2, b2, n2)
    PROVE  /\ Apart(c2, b2, n2, h)
           /\ Out(c2, b2, n2, h) \subseteq Out(c, b, n, h)
<1>1. Out(c2, b2, n2, h) \subseteq Out(c, b, n, h)
  BY DEF Out, Delivers
<1>2. Apart(c2, b2, n2, h)
  BY DEF Apart, Delivers
<1> QED BY <1>1, <1>2

(* ... or takes the first message off a stream, and perhaps starts a       *)
(* handler for it.                                                         *)
Receives(s, w, n, h, n2, h2) ==
    /\ \A t \in Stream, i \in Pos :
          n2[t][i] \subseteq IF t = s THEN n[s][i + 1] ELSE n[t][i]
    /\ \A v \in Worker : h2[v] \subseteq h[v] \cup (IF v = w THEN n[s][1] ELSE {})
LEMMA ReceivedApart ==
    ASSUME NEW c, NEW b, NEW n, NEW h, NEW n2, NEW h2,
           NEW s \in Stream, NEW w \in Worker, Apart(c, b, n, h),
           Receives(s, w, n, h, n2, h2)
    PROVE  /\ Apart(c, b, n2, h2)
           /\ Out(c, b, n2, h2) \subseteq Out(c, b, n, h)
<1>0. 1 \in Pos /\ \A i \in Pos : i + 1 \in Pos /\ i + 1 # 1
  BY DEF Pos
<1>1. Out(c, b, n2, h2) \subseteq Out(c, b, n, h)
  BY <1>0 DEF Out, Receives
<1>2. \A i, k \in Pos : i + 1 = k + 1 => i = k
  BY DEF Pos
<1>3. Apart(c, b, n2, h2)
  BY <1>0, <1>2 DEF Apart, Receives
<1> QED BY <1>1, <1>3

(* No step of the table lowers a row's ceiling.                            *)
LEMMA CeilingRises ==
    ASSUME StoreTypeOK, AttemptLedger, NEW j \in Job, RowStep(j)
    PROVE  /\ Ceiling(jobs[j]) \in Nat /\ Ceiling(jobs'[j]) \in Nat
           /\ Ceiling(jobs[j]) <= Ceiling(jobs'[j])
<1> DEFINE r == jobs[j]
           r2 == jobs'[j]
<1>1. /\ r \in Row /\ r.retry_count \in Nat
      /\ r.state \in {"none", "pending", "processing", "done", "failed"}
  BY RowTypes
<1>2. CASE Created(r, r2)
  <2>1. r = NewRow /\ r.state = "none"
    BY <1>2 DEF Created, AttemptLedger
  <2>2. r.retry_count = 0 /\ r2.retry_count = 0
    BY <1>2, <2>1 DEF Created, NewRow
  <2> QED BY <2>1, <2>2 DEF Ceiling, InProgressOrDone
<1>3. CASE Claimed(r, r2)
  <2>1. r.state = "pending" /\ r2.state = "processing" /\ r2.retry_count = r.retry_count
    BY <1>3 DEF Claimed
  <2> QED BY <1>1, <2>1 DEF Ceiling, InProgressOrDone
<1>4. CASE Completed(r, r2)
  <2>1. r.state = "processing" /\ r2.state = "done" /\ r2.retry_count = r.retry_count
    BY <1>1, <1>4 DEF Completed, Row
  <2> QED BY <1>1, <2>1 DEF Ceiling, InProgressOrDone
<1>5. CASE GivenUp(r, r2)
  <2>1. /\ r.state = "processing" /\ r2.state \in {"pending", "failed"}
        /\ r2.retry_count = r.retry_count + 1
    BY <1>1, <1>5, ReleasedColumns DEF GivenUp, RetryDecision
  <2> QED BY <1>1, <2>1 DEF Ceiling, InProgressOrDone
<1>6. CASE Kept(r, r2)
  <2>1. r2.state = r.state /\ r2.retry_count = r.retry_count
    BY <1>6 DEF Kept
  <2> QED BY <1>1, <2>1 DEF Ceiling, InProgressOrDone
<1> QED BY <1>2, <1>3, <1>4, <1>5, <1>6 DEF RowStep

LEMMA CeilingsRise ==
    ASSUME StoreTypeOK, AttemptLedger, [StoreNext]_storeVars
    PROVE  \A j \in Job : /\ Ceiling(jobs[j]) \in Nat /\ Ceiling(jobs'[j]) \in Nat
                          /\ Ceiling(jobs[j]) <= Ceiling(jobs'[j])
<1>1. CASE StoreNext
  BY <1>1, StepRowwise, CeilingRises
<1>2. CASE UNCHANGED storeVars
  <2>1. \A j \in Job : Ceiling(jobs[j]) \in Nat
    BY RowTypes DEF Ceiling, InProgressOrDone
  <2>2. jobs' = jobs
    BY <1>2 DEF storeVars
  <2> QED BY <2>1, <2>2
<1> QED BY <1>1, <1>2

(* A work is what its fields are.                                          *)
LEMMA WorksOfWork ==
    ASSUME NEW x \in Work
    PROVE  [job |-> x.job, attempt |-> x.attempt] = x
BY DEF Work

(* Messages sent down a stream come after those that are on it.            *)
Placed(s, msgs, t, i) ==
    \/ i \in 1..Len(down[t]) /\ down'[t][i] = down[t][i]
    \/ t = s /\ \E k \in 1..Len(msgs) : /\ i = Len(down[s]) + k
                                        /\ down'[t][i] = msgs[k]
LEMMA SentPlaces ==
    ASSUME WiresTyped, NEW s \in Stream, NEW msgs \in Seq(Message), SendDown(s, msgs),
           NEW t \in Stream, NEW i \in 1..Len(down'[t])
    PROVE  Placed(s, msgs, t, i)
<1> USE DEF Placed
<1>0. down \in [Stream -> Seq(Message)]
  BY DEF WiresTyped
<1>1. CASE broken[s] \/ t # s
  BY <1>0, <1>1 DEF SendDown
<1>2. CASE ~broken[s] /\ t = s
  <2>1. down'[s] = down[s] \o msgs
    BY <1>0, <1>2 DEF SendDown
  <2>2. down[s] \in Seq(Message)
    BY <1>0
  <2>3. /\ Len(down[s] \o msgs) = Len(down[s]) + Len(msgs)
        /\ \A k \in 1 .. Len(down[s]) + Len(msgs) :
              (down[s] \o msgs)[k] = IF k <= Len(down[s]) THEN down[s][k]
                                                         ELSE msgs[k - Len(down[s])]
    BY <2>2, ConcatProperties
  <2>4. Len(down[s]) \in Nat /\ Len(msgs) \in Nat /\ i \in Int
    BY <2>2, LenProperties
  <2>5. i \in 1..(Len(down[s]) + Len(msgs))
    BY <1>2, <2>1, <2>3
  <2>6. CASE i <= Len(down[s])
    <3>1. down'[t][i] = down[t][i] /\ i \in 1..Len(down[t])
      BY <1>2, <2>1, <2>3, <2>4, <2>5, <2>6
    <3> QED BY <3>1
  <2>7. CASE ~(i <= Len(down[s]))
    <3>1. i - Len(down[s]) \in 1..Len(msgs) /\ i = Len(down[s]) + (i - Len(down[s]))
      BY <2>4, <2>5, <2>7
    <3>2. down'[t][i] = msgs[i - Len(down[s])]
      BY <1>2, <2>1, <2>3, <2>5, <2>7
    <3> QED BY <1>2, <3>1, <3>2
  <2> QED BY <2>6, <2>7
<1> QED BY <1>1, <1>2

SentAt(s, msgs, i, x) ==
    \E k \in 1..Len(msgs) : /\ i = Len(down[s]) + k
                            /\ msgs[k].type = "assigned"
                            /\ Works(msgs[k]) = x
LEMMA WireSent ==
    ASSUME WiresTyped, NEW s \in Stream, NEW msgs \in Seq(Message), SendDown(s, msgs),
           NEW t \in Stream, NEW i \in Pos, NEW x, x \in wire'[t][i]
    PROVE  x \in wire[t][i] \/ (t = s /\ SentAt(s, msgs, i, x))
<1>1. /\ x \in Work /\ i \in 1..Len(down'[t])
      /\ down'[t][i].type = "assigned" /\ Works(down'[t][i]) = x
  BY DEF wire
<1>2. Placed(s, msgs, t, i)
  BY <1>1, SentPlaces
<1>3. CASE i \in 1..Len(down[t]) /\ down'[t][i] = down[t][i]
  BY <1>1, <1>3 DEF wire
<1>4. CASE t = s /\ \E k \in 1..Len(msgs) : i = Len(down[s]) + k /\ down'[t][i] = msgs[k]
  BY <1>1, <1>4 DEF SentAt
<1> QED BY <1>2, <1>3, <1>4 DEF Placed

(* No reply is an assignment.                                              *)
LEMMA RepliesAssignNothing ==
    ASSUME NEW m \in Message, NEW renewed \in BOOLEAN,
           NEW k \in 1..Len(Reply(m, renewed))
    PROVE  Reply(m, renewed)[k].type # "assigned"
<1>1. ASSUME NEW type \in {"lost", "result"},
             Reply(m, renewed) = <<[type |-> type, job |-> m.job, attempt |-> m.attempt]>>
      PROVE  Reply(m, renewed)[k].type # "assigned"
  <2>1. k = 1
    BY <1>1
  <2> QED BY <1>1, <2>1
<1>2. ASSUME Reply(m, renewed) = <<>>
      PROVE  FALSE
  BY <1>2
<1> QED BY <1>1, <1>2 DEF Reply

(* From where the attempts went to what holds afterwards.                  *)
LEMMA HandedOutKept ==
    ASSUME HandedOut, Apart(channel, blocked, wire, hand)',
           Out(channel, blocked, wire, hand)' \subseteq Out(channel, blocked, wire, hand),
           \A j \in Job : /\ Ceiling(jobs[j]) \in Nat /\ Ceiling(jobs'[j]) \in Nat
                          /\ Ceiling(jobs[j]) <= Ceiling(jobs'[j])
    PROVE  HandedOut'
<1>1. ASSUME NEW x \in Out(channel, blocked, wire, hand)'
      PROVE  x.attempt <= Ceiling(jobs'[x.job])
  <2>1. x \in Work /\ x.attempt <= Ceiling(jobs[x.job])
    BY <1>1 DEF HandedOut, Out
  <2>2. x.job \in Job /\ x.attempt \in Nat
    BY <2>1 DEF Work
  <2> QED BY <2>1, <2>2
<1> QED BY <1>1 DEF HandedOut

LEMMA DeliverMoves ==
    ASSUME FlowTyped, NEW s \in Stream, Deliver(s)
    PROVE  /\ Len(down[s]) + 1 \in Pos
           /\ Delivers(s, Len(down[s]) + 1, channel, blocked, wire, channel', blocked', wire')
           /\ hand' = hand
<1> DEFINE d == Head(deliveries[s])
           m == [type |-> "assigned", job |-> d.job, attempt |-> d.attempt]
           end == Len(down[s]) + 1
<1>1. d \in Work /\ deliveries[s] = <<d>>
  BY OneDelivery DEF Deliver
<1>2. d \in channel[s]
  BY <1>1 DEF channel
<1>3. m \in Message /\ Works(m) = d
  BY <1>1, WorksOfWork DEF Work, Message, Works
<1>4. end \in Pos
  BY LenProperties DEF FlowTyped, WiresTyped, Pos
<1>5. ASSUME NEW t \in Stream, NEW i \in Pos
      PROVE  wire'[t][i] \subseteq wire[t][i] \cup (IF t = s /\ i = end THEN channel[s] ELSE {})
  <2>1. SUFFICES ASSUME NEW x \in wire'[t][i], x \notin wire[t][i]
                 PROVE  t = s /\ i = end /\ x \in channel[s]
    OBVIOUS
  <2>2. SendDown(s, <<m>>)
    BY DEF Deliver
  <2> HIDE DEF m
  <2>3. <<m>> \in Seq(Message)
    BY <1>3
  <2>4. PICK q \in Seq(Message) : q = <<m>> /\ SendDown(s, q)
    BY <2>2, <2>3
  <2>5. t = s /\ SentAt(s, q, i, x)
    <3>1. WiresTyped /\ x \in wire'[t][i] /\ SendDown(s, q)
      BY <2>1, <2>4 DEF FlowTyped
    <3> QED BY <2>1, <3>1, WireSent
  <2>6. PICK k \in 1..Len(q) : i = Len(down[s]) + k /\ Works(q[k]) = x
    BY <2>5 DEF SentAt
  <2>7. k = 1 /\ q[k] = m
    BY <2>4
  <2> QED BY <1>2, <1>3, <2>5, <2>6, <2>7
<1>6. /\ \A t \in Stream : t # s => channel'[t] \subseteq channel[t]
      /\ \/ channel'[s] \subseteq blocked /\ blocked' = {}
         \/ channel'[s] = {} /\ blocked' \subseteq blocked
  <2>0. deliveries \in [Stream -> Seq(Work)]
    BY DEF FlowTyped, ChannelsTyped
  <2>1. CASE sending # NULL /\ sending.to = s
    <3>1. deliveries' = [deliveries EXCEPT ![s] = <<sending.work>>] /\ sending' = NULL
      BY <2>1 DEF Deliver
    <3>2. blocked' = {}
      BY <3>1 DEF blocked
    <3>3. \A x : <<sending.work>> = <<x>> => x = sending.work
      OBVIOUS
    <3>4. channel'[s] \subseteq blocked
      BY <2>0, <2>1, <3>1, <3>3 DEF channel, blocked
    <3>5. \A t \in Stream : t # s => channel'[t] \subseteq channel[t]
      BY <2>0, <3>1 DEF channel
    <3> QED BY <3>2, <3>4, <3>5
  <2>2. CASE ~(sending # NULL /\ sending.to = s)
    <3>1. deliveries' = [deliveries EXCEPT ![s] = <<>>] /\ sending' = sending
      BY <2>2 DEF Deliver
    <3>2. \A x : <<>> # <<x>>
      OBVIOUS
    <3>3. channel'[s] = {}
      BY <2>0, <3>1, <3>2 DEF channel
    <3>4. blocked' \subseteq blocked
      BY <3>1 DEF blocked
    <3>5. \A t \in Stream : t # s => channel'[t] \subseteq channel[t]
      BY <2>0, <3>1 DEF channel
    <3> QED BY <3>3, <3>4, <3>5
  <2> QED BY <2>1, <2>2
<1>7. hand' = hand
  BY DEF Deliver, workerVars, hand
<1> HIDE DEF end
<1>8. Delivers(s, end, channel, blocked, wire, channel', blocked', wire')
  BY <1>5, <1>6 DEF Delivers
<1> QED BY <1>4, <1>7, <1>8 DEF end

LEMMA DeliverKeepsApart ==
    ASSUME FlowTyped, HandedOut, NEW s \in Stream, Deliver(s)
    PROVE  /\ Apart(channel, blocked, wire, hand)'
           /\ Out(channel, blocked, wire, hand)' \subseteq Out(channel, blocked, wire, hand)
<1> DEFINE end == Len(down[s]) + 1
<1>1. /\ end \in Pos /\ hand' = hand
      /\ Delivers(s, end, channel, blocked, wire, channel', blocked', wire')
  BY DeliverMoves
<1> HIDE DEF end
<1>2. /\ Apart(channel', blocked', wire', hand)
      /\ Out(channel', blocked', wire', hand) \subseteq Out(channel, blocked, wire, hand)
  <2>1. Apart(channel, blocked, wire, hand)
    BY DEF HandedOut
  <2> QED BY <1>1, <2>1, DeliveredApart
<1> QED BY <1>1, <1>2 DEF Apart, Out

(* The attempt a claim hands out is new: the ceiling of a pending row is   *)
(* its retry_count.                                                        *)
LEMMA ClaimKeepsHandedOut ==
    ASSUME StoreTypeOK, LineTyped, LineInv, FlowTyped, HandedOut,
           \A i \in Job : /\ Ceiling(jobs[i]) \in Nat /\ Ceiling(jobs'[i]) \in Nat
                          /\ Ceiling(jobs[i]) <= Ceiling(jobs'[i]),
           NEW j \in Job, PushClaim(j)
    PROVE  HandedOut'
<1> DEFINE s == Head(waiters)
           y == [job |-> j, attempt |-> jobs[j].retry_count + 1]
<1>1. s \in Stream
  BY HeadInLine DEF PushClaim
<1>2. jobs[j] \in Row /\ jobs[j].retry_count \in Nat
  BY RowTypes
<1>3. y \in Work /\ y.job = j /\ y.attempt = jobs[j].retry_count + 1
  BY <1>2 DEF Work
<1>4. jobs[j].state = "pending" /\ Ceiling(jobs[j]) = jobs[j].retry_count
  <2>1. jobs[j].state = "pending"
    BY DEF PushClaim, DequeueJob, Visible
  <2> QED BY <1>2, <2>1 DEF Ceiling, InProgressOrDone
<1>5. Ceiling(jobs'[j]) = jobs[j].retry_count + 1
  <2>1. jobs'[j] = [jobs[j] EXCEPT !.state = "processing",
                        !.worker_id = of[s],
                        !.claim_term = Stamp(jobs[j].claim_term, Reign1),
                        !.lease_expires_at = LeaseFor]
    BY DEF PushClaim, DequeueJob, StoreTypeOK
  <2>2. jobs'[j].state = "processing" /\ jobs'[j].retry_count = jobs[j].retry_count
    BY <1>2, <2>1 DEF Row
  <2> QED BY <1>2, <2>2 DEF Ceiling, InProgressOrDone
<1>6. \/ deliveries' = [deliveries EXCEPT ![s] = <<y>>] /\ sending' = sending
      \/ sending' = [to |-> s, work |-> y] /\ deliveries' = deliveries
  BY DEF PushClaim
<1>7. UNCHANGED <<down, handlers>>
  BY DEF PushClaim, workerVars
<1> HIDE DEF s, y
<1>8. y \notin Out(channel, blocked, wire, hand)
  <2>1. ~(y.attempt <= Ceiling(jobs[y.job]))
    BY <1>2, <1>3, <1>4
  <2> QED BY <2>1 DEF HandedOut
<1>9. \/ /\ \A t \in Stream : channel'[t] \subseteq channel[t] \cup (IF t = s THEN {y} ELSE {})
         /\ blocked' \subseteq blocked
      \/ /\ \A t \in Stream : channel'[t] \subseteq channel[t]
         /\ blocked' \subseteq blocked \cup {y}
  <2>0. deliveries \in [Stream -> Seq(Work)]
    BY DEF FlowTyped, ChannelsTyped
  <2>1. CASE deliveries' = [deliveries EXCEPT ![s] = <<y>>] /\ sending' = sending
    <3>1. \A x : <<y>> = <<x>> => x = y
      OBVIOUS
    <3>2. blocked' \subseteq blocked
      BY <2>1 DEF blocked
    <3>3. \A t \in Stream : channel'[t] \subseteq channel[t] \cup (IF t = s THEN {y} ELSE {})
      BY <1>1, <2>0, <2>1, <3>1 DEF channel
    <3> QED BY <3>2, <3>3
  <2>2. CASE sending' = [to |-> s, work |-> y] /\ deliveries' = deliveries
    <3>1. blocked' \subseteq {y}
      BY <2>2 DEF blocked
    <3>2. channel' = channel
      BY <2>2 DEF channel
    <3> QED BY <3>1, <3>2
  <2> QED BY <1>6, <2>1, <2>2
<1>10. wire' = wire /\ hand' = hand
  BY <1>7 DEF wire, hand
<1>11. /\ Apart(channel', blocked', wire, hand)
       /\ Out(channel', blocked', wire, hand)
             \subseteq Out(channel, blocked, wire, hand) \cup {y}
  <2>1. Apart(channel, blocked, wire, hand)
    BY DEF HandedOut
  <2> QED BY <1>1, <1>3, <1>8, <1>9, <2>1, ClaimedApart
<1>12. Apart(channel, blocked, wire, hand)'
  BY <1>10, <1>11 DEF Apart
<1>13. Out(channel, blocked, wire, hand)' \subseteq Out(channel, blocked, wire, hand) \cup {y}
  BY <1>10, <1>11 DEF Out
<1>14. ASSUME NEW x \in Out(channel, blocked, wire, hand)'
       PROVE  x.attempt <= Ceiling(jobs'[x.job])
  <2>1. CASE x = y
    BY <1>2, <1>3, <1>5, <2>1
  <2>2. CASE x \in Out(channel, blocked, wire, hand)
    <3>1. x.attempt <= Ceiling(jobs[x.job]) /\ x.job \in Job /\ x.attempt \in Nat
      BY <2>2 DEF HandedOut, Out, Work
    <3> QED BY <3>1
  <2> QED BY <1>13, <2>1, <2>2
<1> QED BY <1>12, <1>14 DEF HandedOut

(* What stops a goroutine starts none.                                     *)
LEMMA StoppedHand ==
    ASSUME NEW hs \in SUBSET Handler, NEW h \in hs, NEW rest \in Stopped(hs, h),
           NEW g \in rest, g.live
    PROVE  g \in hs
<1>1. h \in Handler
  OBVIOUS
<1>2. ~[h EXCEPT !.live = FALSE].live
  BY <1>1 DEF Handler
<1>3. g \in hs \/ g = [h EXCEPT !.live = FALSE]
  BY DEF Stopped
<1> QED BY <1>2, <1>3

LEMMA ReceiveMoves ==
    ASSUME FlowTyped, NEW w \in Worker, Receive(w)
    PROVE  /\ conn[w] \in Stream
           /\ Receives(conn[w], w, wire, hand, wire', hand')
           /\ channel' = channel /\ blocked' = blocked
<1> DEFINE s == conn[w]
           m == Head(down[s])
           hx == [job |-> m.job, attempt |-> m.attempt, live |-> TRUE, beating |-> TRUE]
<1>1. s \in Stream /\ down[s] # <<>> /\ down' = [down EXCEPT ![s] = Tail(down[s])]
  BY DEF Receive
<1>2. down \in [Stream -> Seq(Message)] /\ down[s] \in Seq(Message)
  BY <1>1 DEF FlowTyped, WiresTyped
<1>3. /\ Len(Tail(down[s])) = Len(down[s]) - 1
      /\ \A i \in 1 .. Len(Tail(down[s])) : Tail(down[s])[i] = down[s][i + 1]
      /\ m \in Message
  BY <1>1, <1>2, HeadTailProperties
<1>4. Len(down[s]) \in Nat /\ Len(down[s]) # 0
  BY <1>1, <1>2, LenProperties
<1>5. 1 \in 1..Len(down[s]) /\ down[s][1] = m
  BY <1>2, <1>4
<1>6. ASSUME NEW t \in Stream, NEW i \in Pos
      PROVE  wire'[t][i] \subseteq IF t = s THEN wire[s][i + 1] ELSE wire[t][i]
  <2>1. CASE t # s
    <3>1. down'[t] = down[t]
      BY <1>1, <1>2, <2>1
    <3> QED BY <2>1, <3>1 DEF wire
  <2>2. CASE t = s
    <3>1. SUFFICES ASSUME NEW x \in wire'[t][i]
                   PROVE  x \in wire[s][i + 1]
      BY <2>2
    <3>2. down'[t] = Tail(down[s])
      BY <1>1, <1>2, <2>2
    <3>3. /\ x \in Work /\ i \in 1..Len(Tail(down[s]))
          /\ Tail(down[s])[i].type = "assigned" /\ Works(Tail(down[s])[i]) = x
      BY <3>1, <3>2 DEF wire
    <3>4. i + 1 \in 1..Len(down[s]) /\ i + 1 \in Pos
      BY <1>3, <1>4, <3>3 DEF Pos
    <3>5. down[s][i + 1].type = "assigned" /\ Works(down[s][i + 1]) = x
      BY <1>3, <3>3
    <3> QED BY <1>1, <3>3, <3>4, <3>5 DEF wire
  <2> QED BY <2>1, <2>2
<1>7. ASSUME NEW v \in Worker
      PROVE  hand'[v] \subseteq hand[v] \cup (IF v = w THEN wire[s][1] ELSE {})
  <2>0. handlers \in [Worker -> SUBSET Handler]
    BY DEF FlowTyped, WorkersTyped
  <2>1. \/ m.type = "assigned" /\ handlers' = [handlers EXCEPT ![w] = handlers[w] \cup {hx}]
        \/ \E h \in handlers[w] : \E hs \in Stopped(handlers[w], h) :
              handlers' = [handlers EXCEPT ![w] = hs]
        \/ handlers' = handlers
    BY DEF Receive
  <2>2. CASE m.type = "assigned" /\ handlers' = [handlers EXCEPT ![w] = handlers[w] \cup {hx}]
    <3>1. Works(hx) = Works(m)
      BY DEF Works
    <3>2. \A x \in Work : Works(hx) = x => x \in wire[s][1]
      BY <1>1, <1>5, <2>2, <3>1 DEF wire, Pos
    <3> HIDE DEF hx, m, s
    <3>3. \A g \in handlers'[v] : g \in handlers[v] \/ (v = w /\ g = hx)
      BY <2>0, <2>2
    <3> QED BY <3>2, <3>3 DEF hand
  <2>3. ASSUME NEW h \in handlers[w], NEW hs \in Stopped(handlers[w], h),
               handlers' = [handlers EXCEPT ![w] = hs]
        PROVE  hand'[v] \subseteq hand[v]
    <3>1. \A g \in hs : g.live => g \in handlers[w]
      BY <2>0, StoppedHand
    <3>2. \A g \in handlers'[v] : g.live => g \in handlers[v]
      BY <2>0, <2>3, <3>1
    <3> QED BY <3>2 DEF hand
  <2>4. CASE handlers' = handlers
    BY <2>4 DEF hand
  <2> QED BY <2>1, <2>2, <2>3, <2>4
<1>8. channel' = channel /\ blocked' = blocked
  BY DEF Receive, lineVars, channel, blocked
<1> HIDE DEF s
<1>9. Receives(s, w, wire, hand, wire', hand')
  BY <1>6, <1>7 DEF Receives
<1> QED BY <1>1, <1>8, <1>9 DEF s

LEMMA ReceiveKeepsApart ==
    ASSUME FlowTyped, HandedOut, NEW w \in Worker, Receive(w)
    PROVE  /\ Apart(channel, blocked, wire, hand)'
           /\ Out(channel, blocked, wire, hand)' \subseteq Out(channel, blocked, wire, hand)
<1> DEFINE s == conn[w]
<1>1. /\ s \in Stream /\ Receives(s, w, wire, hand, wire', hand')
      /\ channel' = channel /\ blocked' = blocked
  BY ReceiveMoves
<1> HIDE DEF s
<1>2. /\ Apart(channel, blocked, wire', hand')
      /\ Out(channel, blocked, wire', hand') \subseteq Out(channel, blocked, wire, hand)
  <2>1. Apart(channel, blocked, wire, hand)
    BY DEF HandedOut
  <2> QED BY <1>1, <2>1, ReceivedApart
<1> QED BY <1>1, <1>2 DEF Apart, Out

(* Steps that drop attempts or leave them where they are.                  *)
Drops ==
    /\ UNCHANGED <<channel, blocked>>
    /\ \A t \in Stream, i \in Pos : wire'[t][i] \subseteq wire[t][i]
    /\ \A w \in Worker : hand'[w] \subseteq hand[w]

LEMMA DropsKeepApart ==
    ASSUME HandedOut, Drops
    PROVE  /\ Apart(channel, blocked, wire, hand)'
           /\ Out(channel, blocked, wire, hand)' \subseteq Out(channel, blocked, wire, hand)
<1>1. Apart(channel, blocked, wire, hand)
  BY DEF HandedOut
<1>2. /\ \A s \in Stream : channel[s] \subseteq channel[s]
      /\ blocked \subseteq blocked
      /\ \A s \in Stream, i \in Pos : wire'[s][i] \subseteq wire[s][i]
      /\ \A w \in Worker : hand'[w] \subseteq hand[w]
  BY DEF Drops
<1>3. /\ Apart(channel, blocked, wire', hand')
      /\ Out(channel, blocked, wire', hand') \subseteq Out(channel, blocked, wire, hand)
  BY <1>1, <1>2, DroppedApart
<1>4. channel' = channel /\ blocked' = blocked
  BY DEF Drops
<1> QED BY <1>3, <1>4 DEF Apart, Out

LEMMA AnswerDrops ==
    ASSUME FlowTyped, NEW s \in Stream, Answer(s) \/ AnswerError(s)
    PROVE  Drops
<1> DEFINE m == Head(up[s])
<1>1. m \in Message
  BY HeadMessage DEF Answer, AnswerError
<1>2. SendDown(s, Reply(m, TRUE)) \/ SendDown(s, Reply(m, FALSE)) \/ SendDown(s, <<>>)
  BY DEF Answer, AnswerError, Replied
<1>3. PICK q \in Seq(Message) :
         SendDown(s, q) /\ (q = Reply(m, TRUE) \/ q = Reply(m, FALSE) \/ q = <<>>)
  <2>1. /\ Reply(m, TRUE) \in Seq(Message) /\ Reply(m, FALSE) \in Seq(Message)
        /\ <<>> \in Seq(Message)
    BY <1>1, ReplyTyped
  <2> QED BY <1>2, <2>1
<1>4. ASSUME NEW k \in 1..Len(q)
      PROVE  q[k].type # "assigned"
  <2>1. CASE q = <<>>
    BY <2>1
  <2>2. CASE q = Reply(m, TRUE) \/ q = Reply(m, FALSE)
    <3> HIDE DEF m
    <3> QED BY <1>1, <2>2, RepliesAssignNothing
  <2> QED BY <1>3, <2>1, <2>2
<1>5. ASSUME NEW t \in Stream, NEW i \in Pos, NEW x, x \in wire'[t][i]
      PROVE  x \in wire[t][i]
  <2>1. x \in wire[t][i] \/ SentAt(s, q, i, x)
    <3>1. WiresTyped /\ SendDown(s, q)
      BY <1>3 DEF FlowTyped
    <3> QED BY <1>5, <3>1, WireSent
  <2> QED BY <1>4, <2>1 DEF SentAt
<1>6. UNCHANGED <<deliveries, sending, handlers>>
  BY DEF Answer, AnswerError, lineVars, workerVars
<1>7. UNCHANGED <<channel, blocked, hand>>
  BY <1>6 DEF channel, blocked, hand
<1> QED BY <1>5, <1>7 DEF Drops

LEMMA ReportDrops ==
    ASSUME FlowTyped, NEW w \in Worker, NEW h \in handlers[w], NEW verdict,
           Report(w, h, verdict) \/ Beat(w, h)
    PROVE  Drops
<1>0. handlers \in [Worker -> SUBSET Handler] /\ h \in Handler
  BY DEF FlowTyped, WorkersTyped
<1>1. UNCHANGED <<deliveries, sending, down>>
  BY DEF Report, Beat, lineVars
<1>2. UNCHANGED <<channel, blocked, wire>>
  BY <1>1 DEF channel, blocked, wire
<1>3. ASSUME NEW v \in Worker, NEW g \in handlers'[v], g.live
      PROVE  \E f \in handlers[v] : f.live /\ Works(f) = Works(g)
  <2>1. CASE v # w
    <3>1. handlers'[v] = handlers[v]
      BY <1>0, <2>1 DEF Report, Beat
    <3> QED BY <1>3, <3>1
  <2>2. CASE v = w /\ Report(w, h, verdict)
    <3>1. PICK hs \in Stopped(handlers[w], h) : handlers' = [handlers EXCEPT ![w] = hs]
      BY <2>2 DEF Report
    <3>2. handlers'[v] = hs
      BY <1>0, <2>2, <3>1
    <3>3. g \in handlers[v]
      BY <1>0, <1>3, <2>2, <3>1, <3>2, StoppedHand
    <3> QED BY <1>3, <3>3
  <2>3. CASE v = w /\ Beat(w, h)
    <3> DEFINE h2 == [h EXCEPT !.beating = CanSend(w)]
    <3>1. handlers'[v] = (handlers[w] \ {h}) \cup (IF ~h.live THEN {} ELSE {h2})
      BY <1>0, <2>3 DEF Beat
    <3>2. h2.job = h.job /\ h2.attempt = h.attempt
      BY <1>0 DEF Handler
    <3>3. Works(h2) = Works(h)
      BY <3>2, Zenon DEF Works
    <3> HIDE DEF h2
    <3>4. g \in handlers[v] \/ (h.live /\ g = h2)
      BY <1>3, <2>3, <3>1
    <3> QED BY <1>3, <2>3, <3>3, <3>4
  <2> QED BY <2>1, <2>2, <2>3
<1>4. \A v \in Worker : hand'[v] \subseteq hand[v]
  BY <1>3 DEF hand
<1> QED BY <1>2, <1>4 DEF Drops

(* What is down a stream stays, or all of it goes with its reader.         *)
Cleared == \A s \in Stream : down'[s] = down[s] \/ down'[s] = <<>>

LEMMA OthersDrop ==
    ASSUME FlowTyped, UNCHANGED <<deliveries, sending>>, Cleared,
           \A w \in Worker : handlers'[w] \subseteq handlers[w]
    PROVE  Drops
<1>1. UNCHANGED <<channel, blocked>>
  BY DEF channel, blocked
<1>2. ASSUME NEW s \in Stream, NEW i \in Pos
      PROVE  wire'[s][i] \subseteq wire[s][i]
  <2>1. i \notin 1..Len(<<>>)
    BY DEF Pos
  <2> QED BY <2>1 DEF wire, Cleared
<1>3. \A w \in Worker : hand'[w] \subseteq hand[w]
  BY DEF hand
<1> QED BY <1>1, <1>2, <1>3 DEF Drops

LEMMA ReaderGone ==
    ASSUME FlowTyped, NEW v \in Worker, Disconnected(v) \/ WorkerCrash(v)
    PROVE  /\ Drops /\ Cleared
           /\ \A s \in Stream : s # conn[v] => down'[s] = down[s]
           /\ UNCHANGED <<of, pc>>
<1>1. /\ UNCHANGED <<deliveries, sending, of, pc>>
      /\ down' = [down EXCEPT ![conn[v]] = <<>>]
  BY DEF Disconnected, WorkerCrash, lineVars
<1>2. down \in [Stream -> Seq(Message)]
  BY DEF FlowTyped, WiresTyped
<1>3. Cleared /\ \A s \in Stream : s # conn[v] => down'[s] = down[s]
  BY <1>1, <1>2 DEF Cleared
<1>4. \A w \in Worker : handlers'[w] \subseteq handlers[w]
  BY DEF Disconnected, WorkerCrash, FlowTyped, WorkersTyped
<1> QED BY <1>1, <1>3, <1>4, OthersDrop

LEMMA HandedOutInductive ==
    ASSUME DispatchInv, AttemptLedger, HandedOut, [DispatchNext]_dispatchVars
    PROVE  HandedOut'
<1> USE DEF DispatchInv
<1>0. \A j \in Job : /\ Ceiling(jobs[j]) \in Nat /\ Ceiling(jobs'[j]) \in Nat
                     /\ Ceiling(jobs[j]) <= Ceiling(jobs'[j])
  BY DispatchStoreStep, CeilingsRise
<1>1. ASSUME Drops
      PROVE  HandedOut'
  BY <1>0, <1>1, DropsKeepApart, HandedOutKept
<1>2. ASSUME NEW s \in Stream, Answer(s) \/ AnswerError(s)
      PROVE  HandedOut'
  BY <1>1, <1>2, AnswerDrops
<1>3. ASSUME NEW s \in Stream, Deliver(s)
      PROVE  HandedOut'
  BY <1>0, <1>3, DeliverKeepsApart, HandedOutKept
<1>4. ASSUME NEW j \in Job, PushClaim(j)
      PROVE  HandedOut'
  BY <1>0, <1>4, ClaimKeepsHandedOut
<1>5. ASSUME NEW w \in Worker, WorkerStep(w)
      PROVE  HandedOut'
  <2>1. CASE Receive(w)
    BY <1>0, <2>1, ReceiveKeepsApart, HandedOutKept
  <2>2. ASSUME NEW h \in handlers[w],
               Report(w, h, "completed") \/ Report(w, h, "failed") \/ Beat(w, h)
        PROVE  HandedOut'
    BY <1>1, <2>2, ReportDrops
  <2> QED BY <1>5, <2>1, <2>2 DEF WorkerStep
<1>6. ASSUME NEW v \in Worker, Disconnected(v) \/ WorkerCrash(v)
      PROVE  HandedOut'
  BY <1>1, <1>6, ReaderGone
<1>7. CASE \/ \E s \in Stream : Register(s) \/ Forget(s) \/ HandlerEnds(s) \/ Break(s)
           \/ Push("enqueue") \/ Push("timer") \/ PushDone \/ PushError \/ TimerFires
           \/ \E j \in Job : Enqueue(j) \/ EnqueueUnpushed(j)
           \/ \E w \in Worker, s \in Stream : Connect(w, s)
           \/ Reap \/ DispatchTick \/ UNCHANGED dispatchVars
  <2>1. UNCHANGED <<deliveries, sending, down, handlers>>
    BY <1>7 DEF Register, Forget, HandlerEnds, Break, Push, PushDone, PushError, TimerFires,
                Enqueue, EnqueueUnpushed, Reap, DispatchTick, Connect,
                dispatchVars, lineVars, streamVars, workerVars
  <2> QED BY <1>1, <2>1, OthersDrop DEF Cleared
<1> QED BY <1>2, <1>3, <1>4, <1>5, <1>6, <1>7 DEF DispatchNext, ServerStep

LEMMA HandedOutInvariant == DispatchSpec => [](DispatchInv /\ HandedOut)
<1>1. DispatchInit => HandedOut
  <2> SUFFICES ASSUME DispatchInit
               PROVE  HandedOut
    OBVIOUS
  <2>1. \A x : <<>> # <<x>>
    OBVIOUS
  <2>2. /\ \A s \in Stream : channel[s] = {}
        /\ blocked = {}
        /\ \A w \in Worker : hand[w] = {}
    BY <2>1 DEF DispatchInit, channel, blocked, hand
  <2>3. ASSUME NEW s \in Stream, NEW i \in Pos
        PROVE  wire[s][i] = {}
    <3>1. down[s] = <<>> /\ i \notin 1..Len(<<>>)
      BY DEF DispatchInit, Pos
    <3> QED BY <3>1 DEF wire
  <2> QED BY <2>2, <2>3 DEF HandedOut, Apart, Out
<1>2. DispatchInv /\ AttemptLedger /\ HandedOut /\ [DispatchNext]_dispatchVars => HandedOut'
  BY HandedOutInductive
<1>3. DispatchSpec => []AttemptLedger
  <2>1. StoreTypeOK /\ StoreInv => AttemptLedger
    BY DEF StoreInv
  <2> QED BY <2>1, DispatchUsesStore, StoreInvariant, PTL
<1> QED BY <1>1, <1>2, <1>3, DispatchInvariant, PTL DEF DispatchSpec

(* Whatever stalls, breaks, dies, fails and is retried, an attempt of a    *)
(* job the dispatcher hands out is in one place at a time: no two          *)
(* channels, streams or workers ever hold the same attempt, so that at     *)
(* most one handler runs for it.  A pass whose claim committed and whose   *)
(* reply was lost hands out nothing, and the next claim is a new attempt.  *)
THEOREM AttemptHandedOutOnceHolds == DispatchSpec => []AttemptHandedOutOnce
<1>1. ASSUME DispatchInv, HandedOut
      PROVE  AttemptHandedOutOnce
  <2> SUFFICES ASSUME NEW j \in Job, NEW k \in 1..(jobs[j].retry_count + 1)
               PROVE  Cardinality(Places([job |-> j, attempt |-> k])) <= 1
    BY DEF AttemptHandedOutOnce
  <2> DEFINE x == [job |-> j, attempt |-> k]
             P == Places(x)
  <2>1. x \in Work
    BY <1>1, RowTypes DEF Work, DispatchInv
  <2> HIDE DEF x
  <2>2. ASSUME NEW p \in P
        PROVE  \/ \E s \in Stream : p = <<"channel", s>> /\ x \in channel[s]
               \/ p = <<"sending", x>> /\ x \in blocked
               \/ \E s \in Stream, i \in Pos : p = <<"down", s>> /\ x \in wire[s][i]
               \/ \E w \in Worker : p = <<"handler", w>> /\ x \in hand[w]
    <3>1. CASE \E s \in Stream : p = <<"channel", s>> /\ deliveries[s] = <<x>>
      BY <2>1, <3>1 DEF channel
    <3>2. CASE p = <<"sending", x>> /\ sending # NULL /\ sending.work = x
      BY <2>1, <3>2 DEF blocked
    <3>3. CASE \E s \in Stream : p = <<"down", s>> /\ Has(down[s], {"assigned"}, x)
      <4>1. PICK s \in Stream : p = <<"down", s>> /\ Has(down[s], {"assigned"}, x)
        BY <3>3
      <4>2. PICK i \in 1..Len(down[s]) : down[s][i].type = "assigned" /\ Works(down[s][i]) = x
        BY <4>1 DEF Has
      <4>3. i \in Pos
        BY <1>1, LenProperties DEF Pos, DispatchInv, FlowTyped, WiresTyped
      <4>4. x \in wire[s][i]
        BY <2>1, <4>2, <4>3 DEF wire
      <4> QED BY <4>1, <4>3, <4>4
    <3>4. CASE \E w \in Worker : /\ p = <<"handler", w>>
                                 /\ \E h \in handlers[w] : h.live /\ Works(h) = x
      BY <2>1, <3>4 DEF hand
    <3> QED BY <3>1, <3>2, <3>3, <3>4 DEF Places
  <2>3. ASSUME NEW p \in P, NEW q \in P
        PROVE  p = q
    BY <1>1, <2>1, <2>2 DEF HandedOut, Apart
  <2> HIDE DEF P
  <2>4. P = {} \/ \E p : P = {p}
    BY <2>3
  <2>5. Cardinality(P) <= 1
    <3>1. Cardinality(P) = 0 \/ Cardinality(P) = 1
      BY <2>4, FS_EmptySet, FS_Singleton, Zenon
    <3> QED BY <3>1
  <2> QED BY <2>5 DEF P, x
<1> QED BY <1>1, HandedOutInvariant, PTL
-----------------------------------------------------------------------------
(***************************************************************************)
(* What a Lost cancels.  The attempts a worker owns, and the jobs named by *)
(* the Losts on their way, by stream and position.                         *)
(***************************************************************************)
load == [w \in Worker |-> {x \in Work : /\ Owns(w, x.job)
                                        /\ x.attempt = jobs[x.job].retry_count + 1}]
lost == [s \in Stream |-> [i \in Pos |->
           {j \in Job : /\ i \in 1..Len(down[s])
                        /\ down[s][i].type = "lost" /\ down[s][i].job = j}]]

(* The attempt a worker owns comes behind every Lost for its job: it is    *)
(* not in hand yet, and not ahead of the Lost on the stream.  c tells the  *)
(* worker's stream, l the Losts, n the assignments, h what is in hand, o   *)
(* what is owned.                                                          *)
Behind(c, l, n, h, o) ==
    \A w \in Worker, s \in Stream, i \in Pos : \A x \in Work :
       c[w] = s /\ x \in o[w] /\ x.job \in l[s][i]
          => x \notin h[w] /\ \A k \in Pos : k < i => x \notin n[s][k]
Attached ==
    /\ \A w \in Worker : conn[w] \in Stream => of[conn[w]] = w /\ pc[conn[w]] # "unused"
    /\ \A s \in Stream : pc[s] = "unused" => down[s] = <<>>
LostsBehind == Behind(conn, lost, wire, hand, load)
LostInv == Attached /\ LostsBehind

(* What a worker owns after a step it owned before, or has just been       *)
(* handed out.                                                             *)
LEMMA LoadGrows ==
    ASSUME StoreTypeOK, AttemptLedger, HandedOut, [StoreNext]_storeVars,
           NEW w \in Worker, NEW x \in load'[w]
    PROVE  x \in load[w] \/ x \notin Out(channel, blocked, wire, hand)
<1> DEFINE j == x.job
           r == jobs[j]
           r2 == jobs'[j]
<1>1. /\ x \in Work /\ j \in Job /\ x.attempt \in Nat
      /\ r2.worker_id = w /\ r2.state = "processing" /\ x.attempt = r2.retry_count + 1
  BY DEF load, Owns, Work
<1>2. r \in Row /\ r.retry_count \in Nat
  BY <1>1, RowTypes
<1>3. ASSUME r.worker_id = w, r.state = "processing", r2.retry_count = r.retry_count
      PROVE  x \in load[w]
  BY <1>1, <1>3 DEF load, Owns
<1>4. CASE UNCHANGED storeVars
  BY <1>1, <1>3, <1>4 DEF storeVars
<1>5. CASE StoreNext
  <2>1. RowStep(j)
    BY <1>1, <1>5, StepRowwise
  <2> HIDE DEF r, r2
  <2>2. CASE Created(r, r2)
    BY <1>1, <2>2, StoreAssumption DEF Created
  <2>3. CASE Claimed(r, r2)
    <3>1. r.state = "pending" /\ r2.retry_count = r.retry_count
      BY <2>3 DEF Claimed
    <3>2. ~(x.attempt <= Ceiling(r))
      BY <1>1, <1>2, <3>1 DEF Ceiling, InProgressOrDone
    <3> QED BY <3>2 DEF HandedOut, r
  <2>4. CASE Completed(r, r2)
    BY <1>1, <1>2, <2>4 DEF Completed, Row
  <2>5. CASE GivenUp(r, r2)
    <3>1. r2.state \in {"pending", "failed"}
      BY <1>2, <2>5, ReleasedColumns DEF GivenUp, RetryDecision
    <3> QED BY <1>1, <3>1
  <2>6. CASE Kept(r, r2)
    BY <1>1, <1>3, <2>6 DEF Kept
  <2> QED BY <2>1, <2>2, <2>3, <2>4, <2>5, <2>6 DEF RowStep, r, r2
<1> QED BY <1>4, <1>5

(* How a step moves these.  It drops some of them, or has handed out an    *)
(* attempt that was nowhere...                                             *)
LEMMA DroppedBehind ==
    ASSUME NEW c, NEW l, NEW n, NEW h, NEW o, NEW c2, NEW l2, NEW n2, NEW h2, NEW o2,
           Behind(c, l, n, h, o),
           \A w \in Worker, s \in Stream : c2[w] = s => c[w] = s \/ \A i \in Pos : l2[s][i] = {},
           \A s \in Stream, i \in Pos : l2[s][i] \subseteq l[s][i],
           \A s \in Stream, i \in Pos : n2[s][i] \subseteq n[s][i],
           \A w \in Worker : h2[w] \subseteq h[w],
           \A w \in Worker : \A x \in o2[w] :
              x \in o[w] \/ ((\A v \in Worker : x \notin h[v])
                             /\ \A s \in Stream, i \in Pos : x \notin n[s][i])
    PROVE  Behind(c2, l2, n2, h2, o2)
<1> SUFFICES ASSUME NEW w \in Worker, NEW s \in Stream, NEW i \in Pos, NEW x \in Work,
                    c2[w] = s, x \in o2[w], x.job \in l2[s][i]
             PROVE  x \notin h2[w] /\ \A k \in Pos : k < i => x \notin n2[s][k]
  BY DEF Behind
<1>1. c[w] = s /\ x.job \in l[s][i]
  OBVIOUS
<1>2. CASE x \in o[w]
  <2>1. x \notin h[w] /\ \A k \in Pos : k < i => x \notin n[s][k]
    BY <1>1, <1>2 DEF Behind
  <2> QED BY <2>1
<1>3. CASE (\A v \in Worker : x \notin h[v]) /\ \A t \in Stream, k \in Pos : x \notin n[t][k]
  BY <1>3
<1> QED BY <1>2, <1>3

(* ... or sends a Lost for a job that the worker does not own...           *)
Loses(t, j, c, l, n, o, l2, n2) ==
    /\ \A s \in Stream, i \in Pos : l2[s][i] \subseteq l[s][i] \cup (IF s = t THEN {j} ELSE {})
    /\ \A s \in Stream, i \in Pos : n2[s][i] \subseteq n[s][i]
    /\ \A w \in Worker : c[w] = t => \A x \in o[w] : x.job # j
LEMMA LostBehind ==
    ASSUME NEW c, NEW l, NEW n, NEW h, NEW o, NEW l2, NEW n2,
           NEW t \in Stream, NEW j, Behind(c, l, n, h, o),
           Loses(t, j, c, l, n, o, l2, n2)
    PROVE  Behind(c, l2, n2, h, o)
<1> SUFFICES ASSUME NEW w \in Worker, NEW s \in Stream, NEW i \in Pos, NEW x \in Work,
                    c[w] = s, x \in o[w], x.job \in l2[s][i]
             PROVE  x \notin h[w] /\ \A k \in Pos : k < i => x \notin n2[s][k]
  BY DEF Behind
<1>1. x.job \in l[s][i]
  BY DEF Loses
<1>2. x \notin h[w] /\ \A k \in Pos : k < i => x \notin n[s][k]
  BY <1>1 DEF Behind
<1> QED BY <1>2 DEF Loses

(* ... or sends an assignment, which comes after every Lost there is...    *)
Assigns(t, end, new, l, n, n2) ==
    /\ \A i \in Pos : l[t][i] # {} => i < end
    /\ \A s \in Stream, i \in Pos :
          n2[s][i] \subseteq n[s][i] \cup (IF s = t /\ i = end THEN new ELSE {})
LEMMA AssignedBehind ==
    ASSUME NEW c, NEW l, NEW n, NEW h, NEW o, NEW n2,
           NEW t \in Stream, NEW end \in Pos, NEW new, Behind(c, l, n, h, o),
           Assigns(t, end, new, l, n, n2)
    PROVE  Behind(c, l, n2, h, o)
<1> SUFFICES ASSUME NEW w \in Worker, NEW s \in Stream, NEW i \in Pos, NEW x \in Work,
                    c[w] = s, x \in o[w], x.job \in l[s][i]
             PROVE  x \notin h[w] /\ \A k \in Pos : k < i => x \notin n2[s][k]
  BY DEF Behind
<1>1. x \notin h[w] /\ \A k \in Pos : k < i => x \notin n[s][k]
  BY DEF Behind
<1>2. ASSUME NEW k \in Pos, k < i
      PROVE  ~(s = t /\ k = end)
  <2>1. CASE s = t
    <3>1. i < end
      BY <2>1 DEF Assigns
    <3> QED BY <1>2, <3>1 DEF Pos
  <2> QED BY <2>1
<1> QED BY <1>1, <1>2 DEF Assigns

(* ... or takes the first message off a stream.                            *)
Takes(t, v, c, l, l2) ==
    /\ c[v] = t /\ \A w \in Worker : c[w] = t => w = v
    /\ \A s \in Stream, i \in Pos :
          l2[s][i] \subseteq IF s = t THEN l[t][i + 1] ELSE l[s][i]
LEMMA ReceivedBehind ==
    ASSUME NEW c, NEW l, NEW n, NEW h, NEW o, NEW l2, NEW n2, NEW h2,
           NEW t \in Stream, NEW v \in Worker, Behind(c, l, n, h, o),
           Takes(t, v, c, l, l2), Receives(t, v, n, h, n2, h2)
    PROVE  Behind(c, l2, n2, h2, o)
<1> SUFFICES ASSUME NEW w \in Worker, NEW s \in Stream, NEW i \in Pos, NEW x \in Work,
                    c[w] = s, x \in o[w], x.job \in l2[s][i]
             PROVE  x \notin h2[w] /\ \A k \in Pos : k < i => x \notin n2[s][k]
  BY DEF Behind
<1>0. /\ 1 \in Pos /\ i + 1 \in Pos /\ 1 < i + 1
      /\ \A k \in Pos : k + 1 \in Pos /\ (k < i => k + 1 < i + 1)
  BY DEF Pos
<1>1. CASE s # t
  <2>1. w # v /\ x.job \in l[s][i]
    BY <1>1 DEF Takes
  <2>2. x \notin h[w] /\ \A k \in Pos : k < i => x \notin n[s][k]
    BY <2>1 DEF Behind
  <2> QED BY <1>1, <2>1, <2>2 DEF Receives
<1>2. CASE s = t
  <2>1. w = v /\ x.job \in l[t][i + 1]
    BY <1>2 DEF Takes
  <2>2. x \notin h[w] /\ \A k \in Pos : k < i + 1 => x \notin n[t][k]
    BY <1>0, <1>2, <2>1 DEF Behind
  <2>3. x \notin h2[w]
    BY <1>0, <2>2 DEF Receives
  <2>4. \A k \in Pos : k < i => x \notin n2[s][k]
    BY <1>0, <1>2, <2>2 DEF Receives
  <2> QED BY <2>3, <2>4
<1> QED BY <1>1, <1>2

LEMMA AttachedInductive ==
    ASSUME DispatchInv, Attached, [DispatchNext]_dispatchVars
    PROVE  Attached'
<1>0. /\ pc \in [Stream -> PcState] /\ of \in [Stream -> Worker \cup {NoWorker}]
      /\ down \in [Stream -> Seq(Message)]
      /\ conn \in [Worker -> Stream \cup {NoStream, "dead"}]
      /\ NoStream \notin Stream /\ "dead" \notin Stream
      /\ mu \in Stream => pc[mu] = "register"
  BY DispatchAssumption
     DEF DispatchInv, LineTyped, LineInv, FlowTyped, WiresTyped, WorkersTyped
<1>a. /\ \A w \in Worker : conn[w] \in Stream => of[conn[w]] = w /\ pc[conn[w]] # "unused"
      /\ \A s \in Stream : pc[s] = "unused" => down[s] = <<>>
  BY DEF Attached
<1>1. ASSUME of' = of,
             \A w \in Worker : conn'[w] \in Stream => conn'[w] = conn[w],
             \A s \in Stream : pc'[s] = "unused" => pc[s] = "unused" /\ down'[s] = down[s]
      PROVE  Attached'
  BY <1>a, <1>1 DEF Attached
<1>2. ASSUME NEW s \in Stream, Answer(s) \/ AnswerError(s) \/ Deliver(s)
      PROVE  Attached'
  <2>1. of' = of /\ conn' = conn /\ pc[s] = "select"
    BY <1>2 DEF Answer, AnswerError, Deliver, workerVars
  <2>2. \A t \in Stream : t # s => down'[t] = down[t]
    BY <1>0, <1>2 DEF Answer, AnswerError, Deliver, Replied, SendDown
  <2>3. pc' = pc \/ \E x \in {"register", "select", "forget"} : pc' = [pc EXCEPT ![s] = x]
    BY <1>2 DEF Answer, AnswerError, Deliver, Replied
  <2>4. \A t \in Stream : pc'[t] = "unused" => pc[t] = "unused" /\ t # s
    BY <1>0, <2>1, <2>3
  <2> QED BY <1>1, <2>1, <2>2, <2>4
<1>3. ASSUME NEW w \in Worker, WorkerStep(w)
      PROVE  Attached'
  <2>1. UNCHANGED <<of, conn, pc>>
    BY <1>3 DEF WorkerStep, Receive, Report, Beat
  <2>2. ASSUME NEW s \in Stream, down'[s] # down[s]
        PROVE  conn[w] = s
    BY <1>0, <1>3, <2>2 DEF WorkerStep, Receive, Report, Beat
  <2>3. \A s \in Stream : pc'[s] = "unused" => pc[s] = "unused" /\ down'[s] = down[s]
    BY <1>a, <2>1, <2>2
  <2> QED BY <1>1, <2>1, <2>3
<1>4. CASE PushDone \/ PushError
  <2>1. UNCHANGED <<of, conn, down>> /\ Unlock
    BY <1>4 DEF PushDone, PushError, workerVars
  <2>2. \A s \in Stream : pc'[s] = "unused" => pc[s] = "unused"
    BY <2>1 DEF Unlock
  <2> QED BY <1>1, <2>1, <2>2
<1>5. ASSUME NEW s \in Stream, Register(s) \/ Forget(s) \/ HandlerEnds(s) \/ Break(s)
      PROVE  Attached'
  <2>1. UNCHANGED <<of, conn, down>>
    BY <1>5 DEF Register, Forget, HandlerEnds, Break, workerVars
  <2>2. pc' = pc \/ \E x \in {"select", "forget", "gone"} : pc' = [pc EXCEPT ![s] = x]
    BY <1>5 DEF Register, Forget, HandlerEnds, Break
  <2>3. \A t \in Stream : pc'[t] = "unused" => pc[t] = "unused"
    BY <1>0, <2>2
  <2> QED BY <1>1, <2>1, <2>3
<1>6. CASE \/ Push("enqueue") \/ Push("timer") \/ TimerFires
           \/ \E j \in Job : Enqueue(j) \/ EnqueueUnpushed(j) \/ PushClaim(j)
           \/ Reap \/ DispatchTick \/ UNCHANGED dispatchVars
  <2>1. UNCHANGED <<of, conn, down, pc>>
    BY <1>6 DEF Push, TimerFires, Enqueue, EnqueueUnpushed, PushClaim, Reap, DispatchTick,
                dispatchVars, streamVars, workerVars
  <2> QED BY <1>1, <2>1
<1>7. ASSUME NEW w \in Worker, Disconnected(w) \/ WorkerCrash(w)
      PROVE  Attached'
  <2>1. /\ UNCHANGED <<of, pc>>
        /\ \A s \in Stream : s # conn[w] => down'[s] = down[s]
    BY <1>7, ReaderGone DEF DispatchInv
  <2>2. \A v \in Worker : conn'[v] \in Stream => conn'[v] = conn[v]
    BY <1>0, <1>7 DEF Disconnected, WorkerCrash
  <2>3. conn[w] \in Stream
    BY <1>7 DEF Disconnected, WorkerCrash
  <2>4. \A s \in Stream : pc'[s] = "unused" => pc[s] = "unused" /\ down'[s] = down[s]
    BY <1>a, <2>1, <2>3
  <2> QED BY <1>1, <2>1, <2>2, <2>4
<1>8. ASSUME NEW w \in Worker, NEW s \in Stream, Connect(w, s)
      PROVE  Attached'
  <2>1. /\ pc[s] = "unused" /\ down' = down
        /\ \A v \in Worker : conn'[v] = IF v = w THEN s ELSE conn[v]
        /\ \A t \in Stream : of'[t] = IF t = s THEN w ELSE of[t]
        /\ \A t \in Stream : pc'[t] = IF t = s THEN "register" ELSE pc[t]
    BY <1>0, <1>8 DEF Connect
  <2>2. \A t \in Stream : pc'[t] = "unused" => down'[t] = <<>>
    BY <1>a, <2>1
  <2>3. \A v \in Worker : conn'[v] \in Stream => of'[conn'[v]] = v /\ pc'[conn'[v]] # "unused"
    BY <1>a, <2>1
  <2> QED BY <2>2, <2>3 DEF Attached
<1> QED BY <1>2, <1>3, <1>4, <1>5, <1>6, <1>7, <1>8 DEF DispatchNext, ServerStep

(* A Lost is sent only to a worker that does not own the job, and then the *)
(* table is left alone.                                                    *)
LEMMA LostAnswered ==
    ASSUME FlowTyped, NEW s \in Stream, Answer(s) \/ AnswerError(s),
           NEW t \in Stream, NEW i \in Pos, NEW j, j \in lost'[t][i], j \notin lost[t][i]
    PROVE  t = s /\ j = Head(up[s]).job /\ ~Owns(of[s], j) /\ jobs' = jobs
<1> DEFINE m == Head(up[s])
<1>0. m \in Message
  BY HeadMessage DEF Answer, AnswerError
<1>1. /\ j \in Job /\ i \in 1..Len(down'[t])
      /\ down'[t][i].type = "lost" /\ down'[t][i].job = j
  BY DEF lost
<1>2. PICK q \in Seq(Message) :
         /\ SendDown(s, q)
         /\ \/ q = Reply(m, TRUE) /\ Applied(of[s], m)
            \/ q = Reply(m, FALSE) /\ Refused(of[s], m)
            \/ q = Reply(m, FALSE) /\ m.type # "beat"
            \/ q = <<>>
  <2>1. \/ SendDown(s, Reply(m, TRUE)) /\ Applied(of[s], m)
        \/ SendDown(s, Reply(m, FALSE)) /\ Refused(of[s], m)
        \/ SendDown(s, Reply(m, FALSE)) /\ m.type # "beat"
        \/ SendDown(s, <<>>)
    BY DEF Answer, AnswerError, Replied
  <2>2. /\ Reply(m, TRUE) \in Seq(Message) /\ Reply(m, FALSE) \in Seq(Message)
        /\ <<>> \in Seq(Message)
    BY <1>0, ReplyTyped
  <2> QED BY <2>1, <2>2
<1>3. Placed(s, q, t, i)
  <2>1. WiresTyped /\ SendDown(s, q) /\ q \in Seq(Message)
    BY <1>2 DEF FlowTyped
  <2>2. i \in 1..Len(down'[t])
    BY <1>1
  <2> QED BY <2>1, <2>2, SentPlaces
<1>4. ~(i \in 1..Len(down[t]) /\ down'[t][i] = down[t][i])
  BY <1>1 DEF lost
<1>5. PICK k \in 1..Len(q) : t = s /\ q[k].type = "lost" /\ q[k].job = j
  BY <1>1, <1>3, <1>4 DEF Placed
<1> HIDE DEF m
<1>6. m.type = "beat" /\ q = Reply(m, FALSE) /\ Refused(of[s], m)
  <2>1. q # <<>>
    BY <1>5
  <2>2. ASSUME q = <<[type |-> "result", job |-> m.job, attempt |-> m.attempt]>>
        PROVE  FALSE
    <3>1. k = 1
      BY <2>2
    <3> QED BY <1>5, <2>2, <3>1
  <2> QED BY <1>2, <2>1, <2>2 DEF Reply
<1>7. q = <<[type |-> "lost", job |-> m.job, attempt |-> m.attempt]>>
  BY <1>6 DEF Reply
<1>8. j = m.job
  <2>1. k = 1
    BY <1>7
  <2> QED BY <1>5, <1>7, <2>1
<1> QED BY <1>5, <1>6, <1>8 DEF Refused, storeVars, m

LEMMA AnswerBehind ==
    ASSUME DispatchInv, AttemptLedger, HandedOut, LostInv, [DispatchNext]_dispatchVars,
           NEW s \in Stream, Answer(s) \/ AnswerError(s)
    PROVE  LostsBehind'
<1> DEFINE j == Head(up[s]).job
<1>1. FlowTyped /\ Drops
  BY AnswerDrops DEF DispatchInv
<1>2. UNCHANGED <<conn, handlers>>
  BY DEF Answer, AnswerError, workerVars
<1>3. hand' = hand
  BY <1>2 DEF hand
<1>4. Behind(conn, lost, wire, hand, load)
  BY DEF LostInv, LostsBehind
<1>5. \A t \in Stream, i \in Pos : wire'[t][i] \subseteq wire[t][i]
  BY <1>1 DEF Drops
<1>6. CASE \A t \in Stream, i \in Pos : lost'[t][i] \subseteq lost[t][i]
  <2>1. ASSUME NEW w \in Worker, NEW x \in load'[w]
        PROVE  \/ x \in load[w]
               \/ /\ \A v \in Worker : x \notin hand[v]
                  /\ \A t \in Stream, i \in Pos : x \notin wire[t][i]
    <3>1. x \in load[w] \/ x \notin Out(channel, blocked, wire, hand)
      BY DispatchStoreStep, LoadGrows DEF DispatchInv
    <3>2. x \in Work
      BY DEF load
    <3> QED BY <3>1, <3>2 DEF Out
  <2>2. \A w \in Worker : hand[w] \subseteq hand[w]
    OBVIOUS
  <2>3. Behind(conn, lost', wire', hand, load')
    BY <1>4, <1>5, <1>6, <2>1, <2>2, DroppedBehind
  <2> QED BY <1>2, <1>3, <2>3 DEF Behind, LostsBehind
<1>7. ASSUME NEW t \in Stream, NEW i \in Pos, ~(lost'[t][i] \subseteq lost[t][i])
      PROVE  LostsBehind'
  <2>1. jobs' = jobs /\ ~Owns(of[s], j)
    BY <1>1, <1>7, LostAnswered
  <2>2. load' = load
    BY <2>1 DEF load, Owns
  <2>3. ASSUME NEW u \in Stream, NEW k \in Pos
        PROVE  lost'[u][k] \subseteq lost[u][k] \cup (IF u = s THEN {j} ELSE {})
    BY <1>1, LostAnswered
  <2>4. ASSUME NEW w \in Worker, conn[w] = s
        PROVE  \A x \in load[w] : x.job # j
    <3>1. of[s] = w
      BY <2>4 DEF LostInv, Attached
    <3> QED BY <2>1, <3>1 DEF load
  <2> HIDE DEF j
  <2>5. Loses(s, j, conn, lost, wire, load, lost', wire')
    BY <1>5, <2>3, <2>4 DEF Loses
  <2>6. Behind(conn, lost', wire', hand, load)
    BY <1>4, <2>5, LostBehind
  <2> QED BY <1>2, <1>3, <2>2, <2>6 DEF Behind, LostsBehind
<1> QED BY <1>6, <1>7

LEMMA DeliverBehind ==
    ASSUME DispatchInv, LostInv, NEW s \in Stream, Deliver(s)
    PROVE  LostsBehind'
<1> DEFINE end == Len(down[s]) + 1
           d == Head(deliveries[s])
           m == [type |-> "assigned", job |-> d.job, attempt |-> d.attempt]
<1>0. FlowTyped /\ WiresTyped
  BY DEF DispatchInv, FlowTyped
<1>1. /\ end \in Pos /\ hand' = hand
      /\ Delivers(s, end, channel, blocked, wire, channel', blocked', wire')
  BY <1>0, DeliverMoves
<1>2. UNCHANGED <<conn, jobs>>
  BY DEF Deliver, workerVars, storeVars
<1>3. load' = load
  BY <1>2 DEF load, Owns
<1>4. ASSUME NEW t \in Stream, NEW i \in Pos
      PROVE  lost'[t][i] \subseteq lost[t][i]
  <2> SUFFICES ASSUME NEW j \in lost'[t][i]
               PROVE  j \in lost[t][i]
    OBVIOUS
  <2>1. /\ j \in Job /\ i \in 1..Len(down'[t])
        /\ down'[t][i].type = "lost" /\ down'[t][i].job = j
    BY DEF lost
  <2>2. d \in Work
    BY <1>0, OneDelivery DEF Deliver
  <2>3. m \in Message
    BY <2>2 DEF Work, Message
  <2>4. SendDown(s, <<m>>)
    BY DEF Deliver
  <2> HIDE DEF d
  <2>5. m.type = "assigned"
    OBVIOUS
  <2> HIDE DEF m
  <2>6. <<m>> \in Seq(Message)
    BY <2>3
  <2>7. PICK q \in Seq(Message) : q = <<m>> /\ SendDown(s, q)
    BY <2>4, <2>6
  <2>8. Placed(s, q, t, i)
    <3>1. WiresTyped /\ SendDown(s, q) /\ i \in 1..Len(down'[t])
      BY <1>0, <2>1, <2>7
    <3> QED BY <3>1, SentPlaces
  <2>9. ASSUME NEW k \in 1..Len(q), down'[t][i] = q[k]
        PROVE  FALSE
    <3>1. k = 1 /\ q[k] = m
      BY <2>7
    <3> QED BY <2>1, <2>5, <2>9, <3>1
  <2> QED BY <2>1, <2>8, <2>9 DEF lost, Placed
<1>5. \A i \in Pos : lost[s][i] # {} => i < end
  <2>1. Len(down[s]) \in Nat
    BY <1>0, LenProperties DEF WiresTyped
  <2>2. \A i \in Pos : lost[s][i] # {} => i \in 1..Len(down[s])
    BY DEF lost
  <2> QED BY <2>1, <2>2
<1> HIDE DEF end
<1>6. Behind(conn, lost, wire', hand, load)
  <2>1. Behind(conn, lost, wire, hand, load)
    BY DEF LostInv, LostsBehind
  <2>2. Assigns(s, end, channel[s], lost, wire, wire')
    BY <1>1, <1>5 DEF Delivers, Assigns
  <2> QED BY <1>1, <2>1, <2>2, AssignedBehind
<1> QED BY <1>1, <1>2, <1>3, <1>4, <1>6 DEF Behind, LostsBehind

LEMMA ReceiveBehind ==
    ASSUME DispatchInv, LostInv, NEW w \in Worker, Receive(w)
    PROVE  LostsBehind'
<1> DEFINE s == conn[w]
<1>0. FlowTyped /\ down \in [Stream -> Seq(Message)]
  BY DEF DispatchInv, FlowTyped, WiresTyped
<1>1. s \in Stream /\ Receives(s, w, wire, hand, wire', hand')
  BY <1>0, ReceiveMoves
<1>2. UNCHANGED <<conn, jobs>> /\ down[s] # <<>> /\ down' = [down EXCEPT ![s] = Tail(down[s])]
  BY DEF Receive, storeVars
<1>3. load' = load
  BY <1>2 DEF load, Owns
<1>4. \A v \in Worker : conn[v] = s => v = w
  BY <1>1 DEF LostInv, Attached
<1>5. ASSUME NEW t \in Stream, NEW i \in Pos
      PROVE  lost'[t][i] \subseteq IF t = s THEN lost[s][i + 1] ELSE lost[t][i]
  <2> HIDE DEF s
  <2>1. CASE t # s
    <3>1. down'[t] = down[t]
      BY <1>0, <1>2, <2>1
    <3> QED BY <2>1, <3>1 DEF lost
  <2>2. CASE t = s
    <3>1. down'[t] = Tail(down[s]) /\ down[s] \in Seq(Message)
      BY <1>0, <1>1, <1>2, <2>2
    <3>2. /\ Len(Tail(down[s])) = Len(down[s]) - 1 /\ Len(down[s]) \in Nat
          /\ \A k \in 1 .. Len(Tail(down[s])) : Tail(down[s])[k] = down[s][k + 1]
      BY <1>2, <3>1, HeadTailProperties, LenProperties
    <3>3. i \in 1..Len(Tail(down[s])) => i + 1 \in 1..Len(down[s])
      BY <3>2
    <3>4. i + 1 \in Pos
      BY DEF Pos
    <3> QED BY <1>1, <2>2, <3>1, <3>2, <3>3, <3>4 DEF lost
  <2> QED BY <2>1, <2>2
<1>6. Behind(conn, lost', wire', hand', load)
  <2>1. Behind(conn, lost, wire, hand, load) /\ conn[w] = s
    BY DEF LostInv, LostsBehind
  <2>2. Takes(s, w, conn, lost, lost')
    BY <1>4, <1>5, <2>1 DEF Takes
  <2> HIDE DEF s
  <2> QED BY <1>1, <2>1, <2>2, ReceivedBehind
<1> QED BY <1>2, <1>3, <1>6 DEF Behind, LostsBehind

LEMMA LostInductive ==
    ASSUME DispatchInv, AttemptLedger, HandedOut, LostInv, [DispatchNext]_dispatchVars
    PROVE  LostInv'
<1>0. /\ conn \in [Worker -> Stream \cup {NoStream, "dead"}]
      /\ NoStream \notin Stream /\ "dead" \notin Stream
      /\ FlowTyped /\ Behind(conn, lost, wire, hand, load)
  BY DispatchAssumption DEF DispatchInv, FlowTyped, WorkersTyped, LostInv, LostsBehind
<1>1. Attached'
  BY AttachedInductive DEF LostInv
<1>2. ASSUME Drops, Cleared,
             \A w \in Worker, s \in Stream :
                conn'[w] = s => conn[w] = s \/ \A i \in Pos : lost'[s][i] = {}
      PROVE  LostsBehind'
  <2>1. ASSUME NEW w \in Worker, NEW x \in load'[w]
        PROVE  \/ x \in load[w]
               \/ /\ \A v \in Worker : x \notin hand[v]
                  /\ \A t \in Stream, i \in Pos : x \notin wire[t][i]
    <3>1. x \in load[w] \/ x \notin Out(channel, blocked, wire, hand)
      BY DispatchStoreStep, LoadGrows DEF DispatchInv
    <3>2. x \in Work
      BY DEF load
    <3> QED BY <3>1, <3>2 DEF Out
  <2>2. ASSUME NEW s \in Stream, NEW i \in Pos
        PROVE  lost'[s][i] \subseteq lost[s][i]
    <3>1. i \notin 1..Len(<<>>)
      BY DEF Pos
    <3> QED BY <1>2, <3>1 DEF lost, Cleared
  <2>3. /\ \A s \in Stream, i \in Pos : wire'[s][i] \subseteq wire[s][i]
        /\ \A w \in Worker : hand'[w] \subseteq hand[w]
    BY <1>2 DEF Drops
  <2>4. Behind(conn', lost', wire', hand', load')
    BY <1>0, <1>2, <2>1, <2>2, <2>3, DroppedBehind
  <2> QED BY <2>4 DEF Behind, LostsBehind
<1>3. ASSUME NEW s \in Stream, Answer(s) \/ AnswerError(s) \/ Deliver(s)
      PROVE  LostsBehind'
  BY <1>3, AnswerBehind, DeliverBehind
<1>4. ASSUME NEW w \in Worker, WorkerStep(w)
      PROVE  LostsBehind'
  <2>1. CASE Receive(w)
    BY <2>1, ReceiveBehind
  <2>2. ASSUME NEW h \in handlers[w],
               Report(w, h, "completed") \/ Report(w, h, "failed") \/ Beat(w, h)
        PROVE  LostsBehind'
    <3>1. down' = down /\ conn' = conn
      BY <2>2 DEF Report, Beat
    <3>2. Drops
      BY <1>0, <2>2, ReportDrops
    <3> QED BY <1>2, <3>1, <3>2 DEF Cleared
  <2> QED BY <1>4, <2>1, <2>2 DEF WorkerStep
<1>5. ASSUME NEW j \in Job, PushClaim(j)
      PROVE  LostsBehind'
  <2>1. UNCHANGED <<down, conn, handlers>>
    BY <1>5 DEF PushClaim, workerVars
  <2>2. wire' = wire /\ hand' = hand /\ lost' = lost
    BY <2>1 DEF wire, hand, lost
  <2>3. ASSUME NEW w \in Worker, NEW x \in load'[w]
        PROVE  \/ x \in load[w]
               \/ /\ \A v \in Worker : x \notin hand[v]
                  /\ \A t \in Stream, i \in Pos : x \notin wire[t][i]
    <3>1. x \in load[w] \/ x \notin Out(channel, blocked, wire, hand)
      BY DispatchStoreStep, LoadGrows DEF DispatchInv
    <3>2. x \in Work
      BY DEF load
    <3> QED BY <3>1, <3>2 DEF Out
  <2>4. /\ \A s \in Stream, i \in Pos : lost[s][i] \subseteq lost[s][i]
        /\ \A s \in Stream, i \in Pos : wire[s][i] \subseteq wire[s][i]
        /\ \A w \in Worker : hand[w] \subseteq hand[w]
        /\ \A w \in Worker, s \in Stream :
              conn[w] = s => conn[w] = s \/ \A i \in Pos : lost[s][i] = {}
    OBVIOUS
  <2>5. Behind(conn, lost, wire, hand, load')
    BY <1>0, <2>3, <2>4, DroppedBehind
  <2> QED BY <2>1, <2>2, <2>5 DEF Behind, LostsBehind
<1>6. ASSUME NEW v \in Worker, Disconnected(v) \/ WorkerCrash(v)
      PROVE  LostsBehind'
  <2>1. Drops /\ Cleared
    BY <1>0, <1>6, ReaderGone
  <2>2. \A w \in Worker, s \in Stream : conn'[w] = s => conn[w] = s
    BY <1>0, <1>6 DEF Disconnected, WorkerCrash
  <2> QED BY <1>2, <2>1, <2>2
<1>7. ASSUME NEW w \in Worker, NEW t \in Stream, Connect(w, t)
      PROVE  LostsBehind'
  <2>1. UNCHANGED <<deliveries, sending, down, handlers>> /\ pc[t] = "unused"
    BY <1>7 DEF Connect, lineVars
  <2>2. \A i \in Pos : lost'[t][i] = {}
    <3>1. down'[t] = <<>>
      BY <2>1 DEF LostInv, Attached
    <3>2. \A i \in Pos : i \notin 1..Len(<<>>)
      BY DEF Pos
    <3> QED BY <3>1, <3>2 DEF lost
  <2>3. \A v \in Worker, s \in Stream : conn'[v] = s => conn[v] = s \/ s = t
    BY <1>0, <1>7 DEF Connect
  <2> QED BY <1>0, <1>2, <2>1, <2>2, <2>3, OthersDrop DEF Cleared
<1>8. ASSUME \/ \E s \in Stream : Register(s) \/ Forget(s) \/ HandlerEnds(s) \/ Break(s)
             \/ Push("enqueue") \/ Push("timer") \/ PushDone \/ PushError \/ TimerFires
             \/ \E j \in Job : Enqueue(j) \/ EnqueueUnpushed(j)
             \/ Reap \/ DispatchTick \/ UNCHANGED dispatchVars
      PROVE  LostsBehind'
  <2>1. UNCHANGED <<deliveries, sending, down, handlers, conn>>
    BY <1>8 DEF Register, Forget, HandlerEnds, Break, Push, PushDone, PushError, TimerFires,
                Enqueue, EnqueueUnpushed, Reap, DispatchTick,
                dispatchVars, lineVars, streamVars, workerVars
  <2> QED BY <1>0, <1>2, <2>1, OthersDrop DEF Cleared
<1>9. LostsBehind'
  BY <1>3, <1>4, <1>5, <1>6, <1>7, <1>8 DEF DispatchNext, ServerStep
<1> QED BY <1>1, <1>9 DEF LostInv

LEMMA LostInvariant == DispatchSpec => []LostInv
<1>1. DispatchInit => LostInv
  <2> SUFFICES ASSUME DispatchInit
               PROVE  LostInv
    OBVIOUS
  <2>1. Attached
    BY DispatchAssumption DEF DispatchInit, Attached
  <2>2. Behind(conn, lost, wire, hand, load)
    BY DispatchAssumption DEF DispatchInit, Behind
  <2> QED BY <2>1, <2>2 DEF LostInv, LostsBehind
<1>2. DispatchInv /\ AttemptLedger /\ HandedOut /\ LostInv /\ [DispatchNext]_dispatchVars
         => LostInv'
  BY LostInductive
<1>3. DispatchSpec => []AttemptLedger
  <2>1. StoreTypeOK /\ StoreInv => AttemptLedger
    BY DEF StoreInv
  <2> QED BY <2>1, DispatchUsesStore, StoreInvariant, PTL
<1> QED BY <1>1, <1>2, <1>3, HandedOutInvariant, PTL DEF DispatchSpec

(* "A Lost for this job arriving late cannot cancel whatever runs next"    *)
(* (cmd/worker/main.go), with every fault and with beats that come late:   *)
(* the goroutine a Lost cancels is never for the attempt that its worker   *)
(* owns, although the Lost names only the job.  It is sent after a beat    *)
(* was refused, the next attempt of the job comes down the same stream     *)
(* after it, and a new stream starts without Losts.                        *)
THEOREM LostSparesTheOwnerHolds == DispatchSpec => LostSparesTheOwner
<1>1. ASSUME DispatchInv, LostInv, NEW w \in Worker, Receive(w),
             NEW h \in handlers[w] \ handlers'[w]
      PROVE  ~(Owns(w, h.job) /\ Works(h) = Current(h.job))
  <2> SUFFICES ASSUME Owns(w, h.job), Works(h) = Current(h.job)
               PROVE  FALSE
    OBVIOUS
  <2> DEFINE s == conn[w]
             m == Head(down[s])
             x == Works(h)
  <2>0. /\ handlers \in [Worker -> SUBSET Handler] /\ h \in Handler
        /\ s \in Stream /\ down[s] \in Seq(Message) /\ down[s] # <<>>
    BY <1>1 DEF DispatchInv, FlowTyped, WorkersTyped, WiresTyped, Receive
  <2>1. /\ x \in Work /\ x.job = h.job /\ x.attempt = h.attempt
        /\ x.attempt = jobs[x.job].retry_count + 1
    BY <2>0 DEF Works, Current, Handler, Work
  <2>2. /\ m.type = "lost" /\ slot[w] # NULL /\ slot[w].job = m.job
        /\ \E g \in handlers[w] : /\ g.live /\ Works(g) = slot[w]
                                  /\ \E hs \in Stopped(handlers[w], g) :
                                        handlers' = [handlers EXCEPT ![w] = hs]
    <3>1. ~(handlers' = handlers)
      BY <1>1
    <3>2. ASSUME NEW g, handlers' = [handlers EXCEPT ![w] = handlers[w] \cup {g}]
          PROVE  FALSE
      BY <1>1, <2>0, <3>2
    <3> QED BY <1>1, <3>1, <3>2 DEF Receive
  <2>3. PICK g \in handlers[w] :
           /\ g.live /\ Works(g) = slot[w]
           /\ \E hs \in Stopped(handlers[w], g) : handlers' = [handlers EXCEPT ![w] = hs]
    BY <2>2
  <2>4. h = g
    <3>1. PICK hs \in Stopped(handlers[w], g) : handlers' = [handlers EXCEPT ![w] = hs]
      BY <2>3
    <3>2. handlers'[w] = hs /\ handlers[w] \ {g} \subseteq hs
      BY <2>0, <3>1 DEF Stopped
    <3> QED BY <1>1, <3>2
  <2>5. x \in hand[w] /\ x \in load[w]
    BY <2>1, <2>3, <2>4 DEF hand, load
  <2>6. x.job \in lost[s][1] /\ 1 \in Pos
    <3>1. Len(down[s]) \in Nat /\ Len(down[s]) # 0
      BY <2>0, LenProperties
    <3>2. 1 \in 1..Len(down[s]) /\ down[s][1] = m
      BY <2>0, <3>1
    <3>3. m.job = x.job /\ x.job \in Job
      BY <2>1, <2>2, <2>3, <2>4 DEF Work
    <3> QED BY <2>0, <2>2, <3>2, <3>3 DEF lost, Pos
  <2> QED BY <1>1, <2>0, <2>1, <2>5, <2>6 DEF LostInv, LostsBehind, Behind
<1>2. ASSUME DispatchInv, LostInv, [DispatchNext]_dispatchVars
      PROVE  [\A w \in Worker : Receive(w) =>
                 \A h \in handlers[w] \ handlers'[w] :
                    ~(Owns(w, h.job) /\ Works(h) = Current(h.job))]_dispatchVars
  BY <1>1, <1>2
<1>3. DispatchSpec => [](DispatchInv /\ LostInv)
  BY DispatchInvariant, LostInvariant, PTL
<1> QED BY <1>2, <1>3, PTL DEF DispatchSpec, LostSparesTheOwner
=============================================================================
