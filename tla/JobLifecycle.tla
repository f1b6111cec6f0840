---------------------------- MODULE JobLifecycle ----------------------------
(***************************************************************************)
(* What the job table promises, without leases, clocks, terms or backoff:  *)
(* a filed job is queued, held by at most one worker at a time, and ends   *)
(* either done or dead.  Each time it is given back it uses up one of the  *)
(* retries it was filed with, and it is dead exactly when it would be      *)
(* given back with none left.  Nothing leaves "done" or "dead".            *)
(*                                                                         *)
(* Several jobs may move in one step, because one sweep gives back every   *)
(* job whose lease has run out.                                            *)
(***************************************************************************)
EXTENDS Integers

CONSTANTS Job, Worker, NoWorker

VARIABLE life   \* life[j]: the phase of job j, its retries left, its holder

Phase == {"unfiled", "queued", "held", "done", "dead"}
Life == [phase : Phase, left : Nat, holder : Worker \cup {NoWorker}]

Init == life \in [Job -> {l \in Life : /\ l.phase = "unfiled"
                                       /\ l.holder = NoWorker}]

(* The submitter chooses the retries, and the phase the row starts in.     *)
File(j) ==
    /\ life[j].phase = "unfiled"
    /\ life'[j].phase # "unfiled"
    /\ life'[j].holder = NoWorker

Assign(j) ==
    /\ life[j].phase = "queued"
    /\ life'[j].phase = "held"
    /\ life'[j].holder # NoWorker
    /\ life'[j].left = life[j].left

Finish(j) ==
    /\ life[j].phase = "held"
    /\ life[j].holder # NoWorker
    /\ life'[j].phase = "done"
    /\ life'[j].holder = NoWorker
    /\ life'[j].left = life[j].left

GiveBack(j) ==
    /\ life[j].phase = "held"
    /\ life[j].left > 0
    /\ life'[j].phase = "queued"
    /\ life'[j].holder = NoWorker
    /\ life'[j].left = life[j].left - 1

Bury(j) ==
    /\ life[j].phase = "held"
    /\ life[j].left = 0
    /\ life'[j].phase = "dead"
    /\ life'[j].holder = NoWorker
    /\ life'[j].left = 0

Step(j) == File(j) \/ Assign(j) \/ Finish(j) \/ GiveBack(j) \/ Bury(j)

Next == /\ life' \in [Job -> Life]
        /\ \A j \in Job : Step(j) \/ life'[j] = life[j]

Spec == Init /\ [][Next]_life
=============================================================================
