---------------------------- MODULE JobLifecycle ----------------------------
(***************************************************************************)
(* What the job queue promises about one job, whoever touches its row: a   *)
(* job waits, is handed to one worker at a time, and settles as completed, *)
(* failed (with its retry budget spent) or cancelled (only while it        *)
(* waited); only a failed or cancelled job comes back, with a fresh        *)
(* budget.  The jobs are independent, so a step of the system moves any    *)
(* number of them (workers.queue.recover_interrupted_jobs and              *)
(* requeue_stale_jobs move several rows in one transaction).               *)
(*                                                                         *)
(* JobQueue implements this module (Lifecycle there) in a disciplined      *)
(* deployment; the README lists the schedules in which it does not.        *)
(***************************************************************************)
EXTENDS Naturals

CONSTANTS
    Jobs,
    Workers,
    None,
    MaxRetries

VARIABLE life       \* life[j]: the status of j, who owns it, the retries spent

Life(s, o, n) == [status |-> s, owner |-> o, tries |-> n]
Absent        == Life("absent", None, 0)
Waiting(n)    == Life("queued", None, n)

Init == life = [j \in Jobs |-> Absent]

-----------------------------------------------------------------------------

Submit(j) == life[j] = Absent /\ life'[j] = Waiting(0)

\* Whoever is handed the job, the job was waiting.
Start(j) ==
    /\ life[j].status = "queued"
    /\ \E w \in Workers : life'[j] = Life("running", w, life[j].tries)

Complete(j) ==
    /\ life[j].status = "running"
    /\ life'[j] = Life("completed", None, life[j].tries)

\* An attempt that failed is retried while the budget lasts ...
TryAgain(j) ==
    /\ life[j].status = "running"
    /\ life[j].tries < MaxRetries
    /\ life'[j] = Waiting(life[j].tries + 1)

\* ... and an attempt whose worker died is given back for nothing.
GiveBack(j) ==
    /\ life[j].status = "running"
    /\ life'[j] = Waiting(life[j].tries)

GiveUp(j) ==
    /\ life[j].status = "running"
    /\ life[j].tries = MaxRetries
    /\ life'[j] = Life("failed", None, life[j].tries)

Cancel(j) ==
    /\ life[j].status = "queued"
    /\ life'[j] = Life("cancelled", None, life[j].tries)

Revive(j) ==
    /\ life[j].status \in {"failed", "cancelled"}
    /\ life'[j] = Waiting(0)

Move(j) ==
    \/ Submit(j)   \/ Start(j)  \/ Complete(j) \/ TryAgain(j)
    \/ GiveBack(j) \/ GiveUp(j) \/ Cancel(j)   \/ Revive(j)

Next == \A j \in Jobs : Move(j) \/ life'[j] = life[j]

Spec == Init /\ [][Next]_life
=============================================================================
