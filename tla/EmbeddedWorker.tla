--------------------------- MODULE EmbeddedWorker ---------------------------
(***************************************************************************)
(* The deployment that the program ships with: a worker is a thread inside *)
(* of an API process, started by the code of workers/executor.py and never *)
(* again for as long as the process lives.  JobQueue says what the thread  *)
(* does; here is who starts it, and what a submission does before its row  *)
(* is committed.  A process is named as its worker; _embedded_worker of a  *)
(* process is None as long as its thread is "none".                        *)
(***************************************************************************)
EXTENDS JobQueue

CONSTANT MaxTroubles    \* bound: recoveries that raise, deaths of a process without a worker

ASSUME TroublesAssumption == MaxTroubles \in Nat

VARIABLES
    api,            \* is the process up?
    thread,         \* its embedded worker: not created, in recovery, in its loop, dead
    submission,     \* the request that has inserted a job and not committed it
    via,            \* the process that serves each cancel or retry request
    troubles        \* counter for the bound

embedding    == <<api, thread, submission, via, troubles>>
embeddedVars == <<vars, embedding>>

NoSubmission == [job |-> None, at |-> None]

EmbeddedInit ==
    /\ Init
    /\ api = [p \in Workers |-> "down"]
    /\ thread = [p \in Workers |-> "none"]
    /\ submission = NoSubmission
    /\ via = [h \in Handlers |-> None]
    /\ troubles = 0

-----------------------------------------------------------------------------
(* The API process.                                                        *)

\* ensure_embedded_worker, under its lock: whether the thread lives is not asked.
Ensure(p) ==
    thread' = IF thread[p] = "none" THEN [thread EXCEPT ![p] = "starting"] ELSE thread

\* (Mutant: only submissions start the worker, not the start of the API.)
BootWithoutWorker(p) ==
    /\ api[p] = "down"
    /\ api' = [api EXCEPT ![p] = "up"]
    /\ UNCHANGED <<vars, thread, submission, via, troubles>>

\* lifespan
Boot(p) ==
    /\ api[p] = "down"
    /\ api' = [api EXCEPT ![p] = "up"]
    /\ Ensure(p)
    /\ UNCHANGED <<vars, submission, via, troubles>>

Trouble == troubles < MaxTroubles /\ troubles' = troubles + 1

\* The end of the process takes its thread and its requests along.
Dies(p) ==
    /\ api[p] = "up"
    /\ \/ Crash(p) /\ UNCHANGED troubles
       \/ ~Alive(p) /\ Trouble /\ UNCHANGED vars
    /\ api' = [api EXCEPT ![p] = "down"]
    /\ thread' = [thread EXCEPT ![p] = "none"]
    /\ submission' = IF submission.at = p THEN NoSubmission ELSE submission
    /\ via' = [h \in Handlers |-> IF via[h] = p THEN None ELSE via[h]]

\* run_job and compare_job: the row is inserted and the worker ensured; SQLite lets
\* one transaction write at a time.
Submitting(p, j) ==
    /\ api[p] = "up" /\ submission = NoSubmission
    /\ job[j].status = "absent"
    /\ submission' = [job |-> j, at |-> p]
    /\ Ensure(p)
    /\ UNCHANGED <<vars, api, via, troubles>>

\* Only the commit after the handler shows the row to workers.
SubmissionEnds ==
    /\ submission # NoSubmission
    /\ Submit(submission.job) \/ UNCHANGED vars
    /\ submission' = NoSubmission
    /\ UNCHANGED <<api, thread, via, troubles>>

\* A retry ensures the worker, too, before its commit.
Requesting(h, p) ==
    /\ request[h] = NoRequest /\ api[p] = "up"
    /\ RequestStep(h)
    /\ via' = [via EXCEPT ![h] = p]
    /\ IF request'[h].kind = "retry" THEN Ensure(p) ELSE UNCHANGED thread
    /\ UNCHANGED <<api, submission, troubles>>

RequestEnds(h) ==
    /\ request[h] # NoRequest
    /\ RequestStep(h)
    /\ job' # job => via[h] # None
    /\ via' = [via EXCEPT ![h] = None]
    /\ UNCHANGED <<api, thread, submission, troubles>>

-----------------------------------------------------------------------------
(* The thread.                                                             *)

Starting(p) ==
    /\ thread[p] = "starting"
    /\ Start(p)
    /\ thread' = [thread EXCEPT ![p] = "alive"]
    /\ UNCHANGED <<api, submission, via, troubles>>

\* recover_interrupted_jobs raises in Worker.start: nothing catches it, the thread is
\* over, and _embedded_worker stays set.
RecoveryRaises(p) ==
    /\ thread[p] = "starting"
    /\ Trouble
    /\ thread' = [thread EXCEPT ![p] = "dead"]
    /\ UNCHANGED <<vars, api, submission, via>>

Working(p) ==
    /\ thread[p] = "alive"
    /\ \/ WorkerStep(p)
       \/ LoadFails(p) \/ CompleteFails(p) \/ MarkFailedFails(p) \/ HeartbeatFails(p)
    /\ UNCHANGED embedding

TimePasses == (\E j \in Jobs : Expire(j)) /\ UNCHANGED embedding

EmbeddedNext ==
    \/ \E p \in Workers : Boot(p) \/ Dies(p) \/ Starting(p) \/ RecoveryRaises(p) \/ Working(p)
    \/ \E p \in Workers, j \in Jobs : Submitting(p, j)
    \/ \E h \in Handlers, p \in Workers : Requesting(h, p)
    \/ \E h \in Handlers : RequestEnds(h)
    \/ SubmissionEnds \/ TimePasses

EmbeddedSpec == EmbeddedInit /\ [][EmbeddedNext]_embeddedVars

\* A process that is down is started again, and what runs goes on.  Nothing ends a
\* process whose thread is dead, and nothing makes a client send a request.
EmbeddedFairness ==
    \A p \in Workers :
        /\ WF_embeddedVars(Boot(p) \/ Starting(p))
        /\ Progress(p)

EmbeddedFairSpec == EmbeddedSpec /\ EmbeddedFairness

-----------------------------------------------------------------------------

Settled(j) == job[j].status \in {"completed", "failed", "cancelled"}

\* executor.py:3, "starts an embedded worker thread so jobs execute automatically":
\* every queued job settles.
JobsExecuteAutomatically == \A j \in Jobs : job[j].status = "queued" ~> Settled(j)

\* The row says running, and no loop has the job.
Orphaned(j) ==
    job[j].status = "running" /\ ~ \E w \in Workers : InHand(w) /\ held[w] = j

\* Every queued job settles, whenever processes die: what a dead process left running
\* is found at the start of the next one, which needs no submission.  Two things can
\* keep a job waiting for ever: a process that lives on with a dead thread, and, for
\* the job in hand, a database error of a loop that lives on (the refresh after the
\* claim, or mark_failed): its row stays running until some worker starts.
EveryJobSettles ==
    \A j \in Jobs :
        \/ job[j].status = "queued" ~> Settled(j)
        \/ <>[](\E p \in Workers : thread[p] = "dead")
        \/ <>[](faults > 0 /\ Orphaned(j))
=============================================================================
