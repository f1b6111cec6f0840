# A verification of distq

distq is a job queue: servers keep jobs in PostgreSQL, one elected server hands
them to workers over long-lived gRPC streams, and leases, terms and a reaper are
what makes it survive workers and servers that stall or die. This directory
holds TLA+ models of that core, TLC configurations for small instances, and
proofs checked by TLAPS for every instance.

    tlc -workers 2 -config <cfg> <MC module>
    for m in *Proofs.tla ; do tlapm $m ; done

## The system

| part | state | operations | talks to |
|---|---|---|---|
| job store (`internal/storage`) | table `jobs`: state, retry_count, max_retries, worker_id, lease, claim_term, next_run_at | CreateJob, DequeueJob, Complete, FailJob, HeartbeatJob, NextVisible, ReapExpiredLeases, startup migration | one SQL statement each |
| queue (`internal/queue`) | none; policy values only | pass-throughs | the store |
| leadership row + `postgresElection` | row `leadership`: leader_id, term, lease | Campaign, RenewLeadership, ResignLeadership; polling Campaign, Hold, Resign | the store |
| leadership loop (`leadership.go`) | isLead, term, LeadCtx | Run, becomeLead, demote, resign, reapExpiredLeases | election, store; gates dispatcher and streams |
| dispatcher (`dispatcher.go`) | waiters in line, a timer, a mutex | register, forget, Push, pushLocked, armLocked | store; one channel per waiter |
| worker streams (`stream.go`, `server.go`) | per stream: waiter, channel | JobStream's select loop, answer, Enqueue | dispatcher, store, worker |
| worker (`cmd/worker`) | the stream, the read loop's slot, job goroutines | run, start, work, beatLease, send | its stream |
| election interface (`election.go`) | none | Campaign, Hold, Resign | what the loop relies on |
| etcd election (`election_etcd.go`) | session, election key | Campaign, campaignOnce, Hold, Resign, closeSession | etcd |
| server process (`cmd/distq`) | context | startup, signal, gracefulStop, wait for the handover | all of it |

What is hard in it: a node reads `Leading()` and `Term()` and acts on them later;
two nodes may believe they lead; statements commit and lose their replies; a
worker's beats, reports and reconnections race with the sweep that takes its job
away; the dispatcher sends on a channel while it holds its mutex; pushes
happen only when something triggers them; etcd tells of a win late and keeps keys
nobody stands behind; and at shutdown main, the handlers and the election loop
wait for each other. `PROJECT.json` lists these hazards at
their lines, with the properties that are about them.

What makes each part correct: the store never runs a job more often than
max_retries + 1 times nor buries it early, and keeps owner, state and lease
together; the election gives every reign its own term and never lets a lease be
taken or revived out of turn; old reigns can do no harm and the newest one can
recover everything; the line holds each worker once, an attempt is handed out
once, and what is due is handed out; a worker ends up with whoever leads, and a
server told to stop does.

## Modules

    Postgres ── JobStore ── JobStoreProofs          JobLifecycle (abstract)
        │          ├── Cluster  (with Leadership) ── ClusterProofs
        │          └── Dispatch ── DispatchProofs ── SteadyProofs
        └──── Leadership ── LeadershipProofs        Election (abstract)
                  │
    LeadLoop ─────┼── EtcdElection ── EtcdElectionProofs
        │         └── Failover ── FailoverProofs
        └── LoopProofs

* **Postgres** – `greatest()` and time. A timestamp is kept relative to
  CURRENT_TIMESTAMP, in ticks; a tick counts it down to a floor below which the
  code cannot tell values apart. There is no unbounded clock.
* **JobStore** – the table; one action per store method, because each is one
  statement. Callers are unconstrained: any worker id and any term, in any
  order. `handouts` is a history variable that counts landed claims.
  `Released` is the SET list FailJob and the sweep share, `Owns` and `Swept` are
  the two WHERE clauses that fence. A doubled backoff beyond `MaxInterval`
  stands for the one make_interval cannot hold: FailJob errors.
* **JobLifecycle** – what the table promises: unfiled, queued, held by one
  worker, done or dead, and a retry spent each time it is given back.
* **LeadLoop** – the states of `Run`, the same for every election. A node is one
  process run (`newNodeID`), so a restart is another node. `won` and the states
  "deposed", "returning" and "resigning" are the points between two statements
  of the loop at which a node may stall. What the election answers
  (`CampaignReturns`, `HoldLost`, `ResignReturns`) is constrained by the module
  that extends this one.
* **Election** – what the loop may rely on: terms are won once, the mechanism
  stands by a reign that only moves up, and nobody believes beyond it.
* **Leadership** – the row and the election that polls it. A statement that fails
  without committing is a stuttering step; one that commits and loses its reply
  is an action. It implements Election with the row's term as the reign.
* **EtcdElection** – sessions and keys. `mine` is the key of a node's session,
  `session` whether the code still holds it. etcd is external: keys are numbered
  by revisions, a campaign waits for the older ones to go, a lease may lapse at
  any time, and calls may fail on either side of their effect. It implements
  Election with the oldest key as the reign.
* **Failover** – main of the server, the handlers of `JobStream` across reigns,
  and a worker going round its servers, over any election that keeps the promise.
  A handler's `watch` is the reign whose context its select captured; while it is
  "busy" it has captured none, and takes the one of that moment when it is back.
* **Cluster** – both over one database and one clock. A pass of `pushLocked` and
  a sweep each keep the term they read (`push`, `sweep`), and go on after their
  node was deposed. `claimer` is a history variable: the term the last landed
  claim presented. `ServerStarts` is the migration some server runs when it starts,
  which is what gives a job filed as processing its (expired) lease.
* **Dispatch** – the dispatcher, the stream handlers and the workers, in one
  reign of one server. A goroutine inside `pushLocked` is the value of `mu`; a
  send that finds the channel full is `sending`, and `mu` stays taken. `Faults`
  says what the environment may do wrong, so that a run shows which fault a
  property needs to break. `LateBeats` is no fault but a race in the worker:
  `beatLease` may have taken its tick before `work` cancels the context, and its
  beat then goes out after the report. TRUE is the program; FALSE is a worker that
  waits for its beats to end, and shows what rests on that. A dead worker does not
  come back under its id. One producer at a time is between filing and pushing
  (`enqueued`): what several Enqueues wait to do is the same Push, and a later one
  finds what an earlier one would have.
* **MC…** – the instances for TLC.

Definitions marked `\* mutant` are the plausible mistakes that show each property
can fail; nothing refers to them otherwise.

## Runs

| run | checks | instance |
|---|---|---|
| store | StoreTypeOK, AttemptBound, NoAttemptSkipped, LeaseDiscipline, ClaimTermOnlyMovesUp, ImplementsLifecycle | 2 jobs, 2 workers, terms 1–2, max_retries −1, 0 (3) and 1 |
| leadership | LeadTypeOK, OneLeaderPerTerm, BelieversBehindRow, NobodyLeadsAfterResignation, LiveLeaseIsSafe, NoResurrection, ImplementsElection, LeaderlessEnds | 3 nodes, 3 terms |
| etcd | EtcdTypeOK, OneLeaderPerTerm, LiveKeyIsNewest, ImplementsElection, LeaderReturns | 2 nodes, 4 keys |
| cluster | ClusterTypeOK, TermsBounded, NewestReignRecovers, LateSweepHarmless, ExpiredIsRecovered | 2 nodes, 2 terms, 1 job filed as processing with 2 retries, 1 worker |
| dispatch_steady | DispatchTypeOK, OwnedIsInFlight, ReportSettlesItsAttempt, LostSparesTheOwner | late beats, no fault but jobs filed through a follower; 1 worker, 2 jobs with a retry |
| dispatch_faults | LineIsSound, AttemptHandedOutOnce, LostSparesTheOwner | late beats and all five faults; 1 worker, 2 streams, 1 job with a retry |
| dispatch_progress | InLineOwnsNothing, SendNeverBlocks, OneAtATime, FiledIsSettled | no late beats, no faults; 1 worker, 2 jobs with a retry |
| failover | FailoverTypeOK, ShutdownCompletes, DeposedServesNobody, WorkerFindsLeader | 2 servers, 2 terms, 1 worker |

What the passing runs show: whatever callers present and in whichever order, the
table keeps its promises; believers are told apart by their terms; a deposed
leader's sweep does no harm and the newest reign can recover every job, and some
reign does; both elections keep one promise, and each gets the cluster a leader
back whatever is left in the row or in etcd; while the environment does nothing
wrong, late beats or not, every owned attempt is accounted for and a report
settles the attempt it is about; if moreover no beat follows its report, line,
channels and leases agree, a worker has one job, and every job gets settled; when
workers stall, die or reconnect and statements fail, the line stays sound, an
attempt is still handed out once, and a Lost never cancels what its worker still
owns; and on top of any such election a worker ends up at the server that leads, a
deposed server keeps nobody, and a signalled process ends without its forced stop.

Four more runs show where the code does other than it says; each is described
under `findings` in PROJECT.json:

* **late_claim** - a deposed leader's claim lands on a row a newer reign had
  claimed and released. `claim_term` is raised, not compared. (What does hold is
  LateSweepHarmless, and NewestReignRecovers: the late claim's job is within
  reach of the newest reign.)
* **blocked_send** - a beat that goes out after its job's report frees the worker
  twice; the dispatcher then blocks in its send, in the only goroutine that
  could drain the channel, with the mutex held.
* **stranded_job** - after a worker crash the sweep makes the job pending and
  nobody pushes it to the worker in line.
* **dropped_worker** - register and forget go by worker id, so the handler of a
  broken stream removes the reconnected worker from the line. Its jobs are filed
  with max_retries −1, so that no swept job, which stranded_job is about, comes in.

What holds only under conditions, and where it stops:

* InLineOwnsNothing, OneAtATime and SendNeverBlocks fail with late beats alone, no
  lease lapsing. The path is that of blocked_send: report, push of the next job,
  late beat answered as Lost, and the worker is registered while it owns a job.
* FiledIsSettled fails on the same path: a dispatcher blocked in its send serves
  nobody any more. Without "stall" the model's clock then stops at the leases still
  held; what lapses and is swept after that is left out, and cannot be claimed again.
* OneAtATime also fails under "break": a worker that reconnects with a job running
  is registered as free and assigned a second one, although
  `cmd/worker/main.go:35-36` says "one job handled at a time".
* The fence on reports and beats is the worker id alone. ReportSettlesItsAttempt is
  about completed and failed reports; a late *beat* of attempt 1 does prolong
  attempt 2 when the job has come back to the same worker (harmless to it, but not
  meant). Under "stall" or "break" also the *report* of a lost attempt settles the
  next one, in the same circumstances.
* OwnedIsInFlight needs the environment to behave: a delivery lost with its stream,
  or a claim whose reply is lost, leaves an owned attempt that only the lease knows
  of.
* DueIsPushed, which the last two runs refute, also fails under
  Faults = {"follower"}: a job filed through a follower is pushed by nobody.

Three things the models show and no run states. A clean shutdown does not always
hand over at once as `election.go:41-42` promises: with etcd a win that arrives
together with the signal is dropped with its key in place (`election_etcd.go:91-94`),
and `Hold` may take the end of the session, which the signal causes, for a loss,
after which nothing is resigned; the next leader waits for the lease
(LeaderReturns is what remains). Nor does a stream always "die with the reign that
admitted" it (`leadership.go:26`): one that is answering while its server is
demoted and wins again finds the new reign's context when it is back in its
select. It is then the stream of a leader, so no property of Failover objects.
And a stream whose client never greets waits in a Recv that watches no reign, so
that shutdown takes the forced stop; the repository's worker greets at once.

Bounds. `MaxTerm` stops campaigns, `MaxRev` the keys in etcd, `MaxInTransit` the
messages on a stream each way, `MaxInterval` the backoff, and the sets of streams
the reconnections. Leadership has three nodes and three terms: a deposed leader,
its successor, and the first one or a third again. Four keys are enough for a
leader, a candidate behind it, and both again behind their own old keys; five
give the same result. In Cluster two terms make an old reign and a new one beside
it, of two nodes or of one; one job and one worker are enough for the fences,
which compare single rows. Two jobs are needed for a full channel (blocked_send),
two streams for a reconnection. Leases of 0 or 1 ticks suffice because only
"expired or not" is ever tested; Leadership and Cluster have a leadership lease
of 1, so that a leader can renew for ever. Failover has one stream at a time: the
handler of an abandoned one delays the next, which costs the worker time and no
behaviour of its own; handlers of one worker that overlap are in dispatch_faults
and dropped_worker, where they can disturb each other. Its terms allow a server
to be deposed and to win again. Etcd_key.cfg turns deadlock checking off: a
cluster that is shut down, with its keys gone, stops. So does Dispatch_steady.cfg:
the dispatcher that has blocked itself, which blocked_send is about, may be the
last thing that happens. With two workers dispatch_progress has too many states
for its liveness; its three invariants are proved for any number. In Cluster the
job starts as processing and is pending with one retry spent after the first
sweep, so what follows is also the life of a job filed as pending. Symmetry is used in safety
runs only.

## Fairness

* Leadership, the row: the clock runs, and each node's loop takes the step it is at (it
  polls every renewEvery). Not assumed: that a leader renews in time, that a
  reply arrives, that nobody crashes. LeaderlessEnds excuses only the case of
  every node going down and the term bound.
* EtcdElection: the loop runs, a campaign that is first in line hears of it, a
  leader whose key is gone is told (its keepalive fails), and a lease that nobody
  keeps alive runs out. Not assumed: that calls get through, that a lease is kept.
* Failover: loops, main, handlers and the worker get on with their code. A
  handler in its select is treated with strong fairness: Go chooses at random
  among the ready cases, so messages that keep coming do not hide the end of a
  reign for ever. Nothing is assumed of elections, losses, signals, deaths and
  broken connections, nor that `shutdownGrace` ever runs out; WorkerFindsLeader
  says in its own hypothesis that leadership settles and connections hold.
* Cluster: also the reaper's ticker, and strong fairness for a sweep, which may
  be attempted and fail again and again but not every time. No worker is assumed
  to report.
* Dispatch: goroutines run; a goroutine waiting for `d.mu` gets it (Go's mutex
  does not starve a waiter), hence strong fairness; the timer and the reaper's
  ticker go off; workers connect, read, and their handlers end. Nothing is
  assumed of producers, breaks, crashes and errors.

## Proofs

**JobStoreProofs**, from StoreAssumption alone: any sets of jobs, workers and
terms, any lease and backoff. AttemptBound is not inductive: it follows from
*AttemptLedger* (every landed claim except the one in progress is counted in
retry_count, and retry_count stays within the budget until the attempt that
buries the job). The invariant is AttemptLedger with LeaseDiscipline (`StoreInv`).
One lemma per operation shows what it does to one row. NoAttemptSkipped needs the
equality *ExactLedger* and the assumption that clients file jobs as pending
(`FiledPending`). StoreRefinesLifecycle shows StoreSpec => Abstract!Spec: the
initial states map to initial states and every step to a step or a stutter, by
the same invariant.

**LeadershipProofs**, from LeadAssumption: any number of nodes, any lease, any
term bound. OneLeaderPerTerm says nothing of a node between winning and
becomeLead, so the invariant `LeadInv` speaks of the reign a node *holds*
(`Reigns`, `Reign`): held reigns are pairwise different, they equal the row's term
exactly when the row names the node and are older otherwise, and a node leads
exactly from becomeLead to demote. The safety properties follow from it; the two
action properties from it and one lemma on how each step treats the row.
LeadImplementsElection shows LeadSpec => Promise!ElectionSpec from the same
invariant: a step that raises the row's term is a Win of that term or moves on
(the reply was lost), every other step keeps the term and only makes nodes stop
believing.

**LoopProofs** has what the proofs about etcd and failover share: a move of the
loop other than a win gives nobody a reign, and a win gives one to the node that
campaigned.

**EtcdElectionProofs**, from EtcdAssumption: any nodes, any number of revisions.
The invariant `EtcdInv` says that a revision belongs to one node's session, and
that whoever reigns does so under the key of its open session with no older key
left before it. The last is the point: an older key can only go, and a new one is
numbered higher, so being first in line once is being first for ever, even after
one's own lease has lapsed. Two reigns are then two keys, and a leader whose key
is still there is the newest. EtcdImplementsElection maps the oldest key to the
abstract reign; that there is an oldest key comes from the well-foundedness of
the numbers, and that it only moves up from keys being drawn in order.

**FailoverProofs**, from FailoverAssumption: any servers, list and streams. The
terms handlers capture are terms that were won (`TermsWon`), which the type
invariant needs; FailoverKeepsPromise shows that main, signals, deaths and streams
around the loop leave the behaviour an Election allows.

**ClusterProofs**, from the assumptions of JobStore and Leadership and one more,
that the terms callers present include those that can be won (ClusterAssumption).
The composition comes first: ClusterSpec => LeadSpec (no push, sweep or report
touches the election) and ClusterSpec => StoreSpec (every statement is one of the
store's, under a term that was won), so all theorems of both parts hold in the
cluster without being proved again. The invariant that relates the two, `ClusterInv`:
the term of a pass or sweep under way, and every stamp in the table, is at most
the row's. TermsBounded and NewestReignRecovers follow, and LateSweepHarmless from
them with what a sweep does to one row.

**DispatchProofs**, from the assumptions of JobStore and DispatchAssumption: any
jobs, workers, streams and transit bound, and every set of faults. The invariant
`DispatchInv` has four parts. The line (`LineInv`): a handler inside pushLocked
is registering, whoever waits has a handler, and a worker waits once. They need
each other: forget drops one waiter of its *worker*, and that this is its own, if
it has one, is because there is only one. What travels (`FlowTyped`): every
message names a job. The clockwork (`ClockTyped`): a timer is set from the earliest
pending run, which exists because only finitely many jobs were ever filed; the
least element of a finite set is got from a smallest counterexample. With the
types of the table, every step is a step of the store or leaves it alone
(DispatchUsesStore). AttemptHandedOutOnce needs `HandedOut`: positions on a stream
are told apart, no attempt is in two places, and no attempt is out beyond the
row's ceiling, which is retry_count, and one more while an attempt is in progress
or done. No operation of the table lowers a ceiling, and a pending row's is
exactly retry_count, so what a claim hands out was nowhere before. Four lemmas
without state say how attempts may move (dropped, claimed, delivered, received)
and each action is shown to be one of them. LostSparesTheOwner needs `LostInv`: an
attempt that a worker owns is never in its hands, nor ahead on its stream, when a
Lost for that job is on its way. When the Lost is sent the worker does not own the
job, what it comes to own later is a fresh attempt, which was nowhere before
(`HandedOut`), and a stream keeps its order.

**SteadyProofs**, from the same assumptions and the hypothesis `Calm`: no stall,
break, crash or failing statement (jobs may be filed through a follower), so that
no lease lapses, and jobs filed with so few retries that make_interval holds every
backoff. The second is not a convenience: FailJob errors on a backoff that does
not fit, the job stays with its worker, and `answer` counts the worker as free.
With the server's default base of a second and 3 retries it holds by far.

With late beats, that is for the worker as written, OwnedIsInFlight and
ReportSettlesItsAttempt are proved, although a worker may be freed twice, hold
several jobs and block the dispatcher. The invariant is `CalmInv`: a worker keeps
the one stream it opened (`Wired`), no lease runs out (`NoneLapsed`), backoffs fit,
and the books balance (`BooksInv`): the attempts a worker owns are exactly those on
their way to it (in the channel, in the blocked send, on the stream), those in its
hands, and those it has reported and not been answered for, and what is reported is
reported once and is nowhere else. Each step moves one attempt from one column to
the next, or books it in or out with the table. A Lost is the step that could lose
one, and LostInv of DispatchProofs says that it takes nothing owned.

SendNeverBlocks, InLineOwnsNothing and OneAtATime are proved under `Calm` and
~LateBeats; blocked_send shows that the second is needed. The invariant `SteadyInv`
says where each worker's one job is. Table and worker agree (`CargoInv`): a worker
owns nothing and is idle, or it owns one job and that very attempt is at one of four
stages, in the channel, on its way down, worked on and beaten for, or reported, the
report being the last message up. And a worker rests, about to be registered or in
line, only when it owns nothing (`RestInv`). The stages follow each other in a
circle; lemmas without state say how a step takes a worker from one to the next, one
lemma per operation of the table says whose rows it leaves alone, and `CargoMoved`
puts them together: a step moves one worker's cargo and nobody else's. Then the
head of the line has an empty channel.

Only model-checked: all liveness (the prover has no ENABLED), which is
LeaderlessEnds, LeaderReturns, ExpiredIsRecovered, FiledIsSettled and the three
temporal properties of Failover. Every invariant and every action property of a
passing run is proved.

## Not modelled

Schema upgrades from older versions; startup before the election loop runs, the
migration apart; a
cluster that changes its election mechanism (the comment on `newElection` forbids
it); the job types `handle` of the worker demonstrates; the producer and the probe,
which are clients with no state; configuration, which only splits lists; and
generated code. Columns nothing reads back are left out, and so are log lines.
What is left is sequential code without a state of its own: there is nothing in
it for a model checker to interleave.

## Plan

1. *Done:* the table, the election by row and by key with their common promise,
   their composition with the table, the dispatcher with its streams and workers,
   failover and shutdown; the proofs of the table, of both elections, of the
   composition, and of what the dispatcher keeps up under every fault and under
   none.
2. What a reign change does to Dispatch: its one server leads throughout, and
   Failover, which has the reigns, has no jobs. A composition of the two would show
   the jobs of a demoted server recovered and pushed by the next.
