------------------------------ MODULE JobQueue ------------------------------
(***************************************************************************)
(* The DB-backed job queue of backend/src/workers: the jobs table, the     *)
(* worker processes that poll it, the stale-job checker, and the API's     *)
(* submit, cancel and retry handlers.  Every action is one committed       *)
(* transaction, or one step of a program between two of them.  What a      *)
(* session read and kept (SQLAlchemy's identity map) is state of its own,  *)
(* because the code goes on to use it after the row has changed.           *)
(***************************************************************************)
EXTENDS Integers

CONSTANTS
    Jobs,               \* primary keys, in the order the rows are inserted
    Workers,            \* the worker processes and embedded worker threads
    Handlers,           \* concurrent requests to the cancel and retry routes
    None,               \* NULL
    Priority,           \* jobs.priority
    MaxRetries,         \* jobs.max_retries
    RequestKinds,       \* the routes that clients use: "cancel", "retry"
    StaleCheckerRuns,   \* is a StaleChecker running?
    TimelyHeartbeats,   \* does a beating worker always beat before the timeout?
    StartsOverlapWork,  \* may a worker start while others work or requeue jobs?
    MaxClaims,          \* bound: claims of one job
    MaxRequests,        \* bound: requests that pass their check
    MaxDepartures,      \* bound: crashes and stops of workers
    MaxFaults           \* bound: database errors

ASSUME JobsAssumption == Jobs \subseteq Nat
ASSUME PriorityAssumption == Priority \in [Jobs -> Int]
ASSUME NoneAssumption == None \notin Jobs /\ None \notin Workers
ASSUME BoundsAssumption ==
    /\ MaxRetries \in Nat /\ MaxClaims \in Nat
    /\ MaxRequests \in Nat /\ MaxDepartures \in Nat /\ MaxFaults \in Nat
ASSUME SwitchesAssumption ==
    /\ RequestKinds \subseteq {"cancel", "retry"}
    /\ {StaleCheckerRuns, TimelyHeartbeats, StartsOverlapWork} \subseteq BOOLEAN

VARIABLES
    job,        \* the jobs table: the row of every job
    pc,         \* where each worker's poll loop is
    held,       \* the job in the hands of the loop (its local variable job)
    loaded,     \* retry_count as the worker's session loaded it
    beat,       \* the job in the hands of the heartbeat thread (its local variable job_id)
    stopping,   \* Worker._running is False
    request,    \* the session of each request in flight
    scan,       \* the rows that the stale checker's session loaded
    requests, departures, faults,   \* counters for the bounds
    claims,     \* history: successful claims of each job
    attempt     \* history: the number of the claim that a worker works on

table   == <<job>>
loop    == <<pc, held, loaded, beat, stopping, attempt>>
bounds  == <<requests, departures, faults>>
vars    == <<job, pc, held, loaded, beat, stopping, request, scan,
             requests, departures, faults, claims, attempt>>

-----------------------------------------------------------------------------
(* Rows.  A result is named by the attempt that produced it, 0 for NULL.   *)

Status == {"absent", "queued", "running", "completed", "failed", "cancelled"}

Row == [status : Status,
        worker_id : Workers \cup {None},
        last_heartbeat : {"null", "fresh", "expired"},
        retry_count : Nat,
        result : Nat]

AbsentRow == [status |-> "absent", worker_id |-> None,
              last_heartbeat |-> "null", retry_count |-> 0, result |-> 0]

NewRow == [AbsentRow EXCEPT !.status = "queued"]

\* What the several writers of a row set.  Columns they leave alone keep
\* whatever the row holds.
\* (Mutant: the claim forgets to set the heartbeat.)
ClaimedSilently(row, w) ==
    [row EXCEPT !.status = "running", !.worker_id = w]

ClaimedBy(row, w) ==
    [row EXCEPT !.status = "running", !.worker_id = w, !.last_heartbeat = "fresh"]

Requeued(row) ==
    [row EXCEPT !.status = "queued", !.worker_id = None, !.last_heartbeat = "null"]

RequeuedWith(row, n) == [Requeued(row) EXCEPT !.retry_count = n]

Retried(row) == RequeuedWith(row, 0)

Cancelled(row) == [row EXCEPT !.status = "cancelled"]

StaleHandled(row) ==
    IF row.retry_count < MaxRetries
    THEN RequeuedWith(row, row.retry_count + 1)
    ELSE [row EXCEPT !.status = "failed"]

\* An ORM flush is an UPDATE by primary key of the columns whose value is not
\* the one loaded: the others keep what other transactions wrote.
Column(current, old, new) == IF new = old THEN current ELSE new

Flush(row, old, new) ==
    [status         |-> Column(row.status, old.status, new.status),
     worker_id      |-> Column(row.worker_id, old.worker_id, new.worker_id),
     last_heartbeat |-> Column(row.last_heartbeat, old.last_heartbeat,
                               new.last_heartbeat),
     retry_count    |-> Column(row.retry_count, old.retry_count, new.retry_count),
     result         |-> Column(row.result, old.result, new.result)]

-----------------------------------------------------------------------------
(* State formulae.                                                         *)

Alive(w)   == pc[w] # "down"
InHand(w)  == pc[w] \in {"claimed", "executing", "failing"}
Beating(w) == pc[w] \in {"executing", "failing"} /\ ~stopping[w]

\* ORDER BY priority DESC, queued_at ASC
Before(j, k) ==
    \/ Priority[j] > Priority[k]
    \/ Priority[j] = Priority[k] /\ j < k

HeadOfQueue(j) ==
    /\ job[j].status = "queued"
    /\ \A k \in Jobs \ {j} : job[k].status = "queued" => Before(j, k)

IsStale(j) == job[j].status = "running" /\ job[j].last_heartbeat = "expired"

NoRequest == [kind |-> "none", job |-> None, row |-> AbsentRow]
NoScan    == [j \in Jobs |-> AbsentRow]

\* Nobody works and no requeue is under way: when a careful operator starts a worker.
Quiet == (\A w \in Workers : ~InHand(w)) /\ scan = NoScan

Init ==
    /\ job = [j \in Jobs |-> AbsentRow]
    /\ pc = [w \in Workers |-> "down"]
    /\ held = [w \in Workers |-> None]
    /\ loaded = [w \in Workers |-> 0]
    /\ beat = [w \in Workers |-> None]
    /\ stopping = [w \in Workers |-> FALSE]
    /\ request = [h \in Handlers |-> NoRequest]
    /\ scan = NoScan
    /\ requests = 0 /\ departures = 0 /\ faults = 0
    /\ claims = [j \in Jobs |-> 0]
    /\ attempt = [w \in Workers |-> 0]

-----------------------------------------------------------------------------
(* The API: run_job and compare_job insert a row; cancel and retry read    *)
(* the row, check its status, and write at the commit after the handler.   *)

Submit(j) ==
    /\ job[j].status = "absent"
    /\ \A k \in Jobs : k < j => job[k].status # "absent"
    /\ job' = [job EXCEPT ![j] = NewRow]
    /\ UNCHANGED <<loop, request, scan, bounds, claims>>

Accept(h, kind, j) ==
    /\ request[h] = NoRequest
    /\ requests < MaxRequests
    /\ kind \in RequestKinds
    /\ request' = [request EXCEPT ![h] = [kind |-> kind, job |-> j, row |-> job[j]]]
    /\ requests' = requests + 1
    /\ UNCHANGED <<table, loop, scan, departures, faults, claims>>

CancelChecked(h, j) == job[j].status = "queued" /\ Accept(h, "cancel", j)

\* (Mutant: the retry route forgets to check the status.)
RetryUnchecked(h, j) == job[j].status # "absent" /\ Accept(h, "retry", j)

RetryChecked(h, j) ==
    job[j].status \in {"failed", "cancelled"} /\ Accept(h, "retry", j)

Wanted(r) == IF r.kind = "cancel" THEN Cancelled(r.row) ELSE Retried(r.row)

RequestCommits(h) ==
    LET r == request[h]
    IN  /\ r # NoRequest
        /\ job' = [job EXCEPT ![r.job] = Flush(@, r.row, Wanted(r))]
        /\ request' = [request EXCEPT ![h] = NoRequest]
        /\ UNCHANGED <<loop, scan, bounds, claims>>

\* An exception, or the end of the API process: the session is rolled back.
RequestAborts(h) ==
    /\ request[h] # NoRequest
    /\ request' = [request EXCEPT ![h] = NoRequest]
    /\ UNCHANGED <<table, loop, scan, bounds, claims>>

-----------------------------------------------------------------------------
(* A worker.                                                               *)

\* (Mutant: a worker starts without recovery.)
StartWithoutRecovery(w) ==
    /\ pc[w] = "down"
    /\ StartsOverlapWork \/ Quiet
    /\ pc' = [pc EXCEPT ![w] = "idle"]
    /\ UNCHANGED <<table, held, loaded, beat, stopping, attempt, request, scan, bounds,
                   claims>>

\* Worker.start: every job the table shows as running goes back to the queue.
Start(w) ==
    /\ pc[w] = "down"
    /\ StartsOverlapWork \/ Quiet
    /\ job' = [j \in Jobs |-> IF job[j].status = "running" THEN Requeued(job[j])
                                                           ELSE job[j]]
    /\ pc' = [pc EXCEPT ![w] = "idle"]
    /\ UNCHANGED <<held, loaded, beat, stopping, attempt, request, scan, bounds, claims>>

\* claim_next_job reads the head of the queue ...
Poll(w) ==
    /\ pc[w] = "idle" /\ ~stopping[w]
    /\ \E j \in Jobs : HeadOfQueue(j) /\ held' = [held EXCEPT ![w] = j]
    /\ pc' = [pc EXCEPT ![w] = "selected"]
    /\ UNCHANGED <<table, loaded, beat, stopping, attempt, request, scan, bounds, claims>>

\* (Mutant: the UPDATE of the claim has no condition on the status.)
ClaimUnguarded(w) ==
    LET j == held[w]
    IN  /\ pc[w] = "selected"
        /\ claims[j] < MaxClaims
        /\ job' = [job EXCEPT ![j] = ClaimedBy(@, w)]
        /\ claims' = [claims EXCEPT ![j] = @ + 1]
        /\ attempt' = [attempt EXCEPT ![w] = claims[j] + 1]
        /\ pc' = [pc EXCEPT ![w] = "claimed"]
        /\ UNCHANGED <<held, loaded, beat, stopping, request, scan, bounds>>

\* ... and takes it with an UPDATE that holds only if it is still queued.
Claim(w) ==
    LET j == held[w]
    IN  /\ pc[w] = "selected"
        /\ job[j].status = "queued"
        /\ claims[j] < MaxClaims
        /\ job' = [job EXCEPT ![j] = ClaimedBy(@, w)]
        /\ claims' = [claims EXCEPT ![j] = @ + 1]
        /\ attempt' = [attempt EXCEPT ![w] = claims[j] + 1]
        /\ pc' = [pc EXCEPT ![w] = "claimed"]
        /\ UNCHANGED <<held, loaded, beat, stopping, request, scan, bounds>>

\* (Mutant: the worker keeps its current job after the attempt.)
ReleaseKeepsJob(w) ==
    /\ pc' = [pc EXCEPT ![w] = "idle"]
    /\ UNCHANGED <<held, loaded, attempt, beat, stopping, request, scan>>

Release(w) ==
    /\ pc' = [pc EXCEPT ![w] = "idle"]
    /\ held' = [held EXCEPT ![w] = None]
    /\ loaded' = [loaded EXCEPT ![w] = 0]
    /\ attempt' = [attempt EXCEPT ![w] = 0]
    /\ UNCHANGED <<beat, stopping, request, scan>>

\* (Mutant: the row count of the claim is not looked at.)
LostClaimIgnored(w) ==
    /\ pc[w] = "selected"
    /\ job[held[w]].status # "queued"
    /\ pc' = [pc EXCEPT ![w] = "claimed"]
    /\ UNCHANGED <<table, held, loaded, beat, stopping, attempt, request, scan, bounds,
                   claims>>

LoseClaim(w) ==
    /\ pc[w] = "selected"
    /\ job[held[w]].status # "queued"
    /\ Release(w)
    /\ UNCHANGED <<table, bounds, claims>>

\* session.refresh, a transaction of its own, loads the row; then the heartbeat
\* thread sees the job.
Load(w) ==
    /\ pc[w] = "claimed"
    /\ loaded' = [loaded EXCEPT ![w] = job[held[w]].retry_count]
    /\ pc' = [pc EXCEPT ![w] = "executing"]
    /\ UNCHANGED <<table, held, beat, stopping, attempt, request, scan, bounds, claims>>

\* (Mutant: mark_completed leaves the result out.)
CompleteWithoutResult(w) ==
    /\ pc[w] = "executing"
    /\ job' = [job EXCEPT ![held[w]].status = "completed"]
    /\ Release(w)
    /\ UNCHANGED <<bounds, claims>>

\* mark_completed, by primary key and on no other condition.
Complete(w) ==
    /\ pc[w] = "executing"
    /\ job' = [job EXCEPT ![held[w]] =
                  [@ EXCEPT !.status = "completed", !.result = attempt[w]]]
    /\ Release(w)
    /\ UNCHANGED <<bounds, claims>>

\* _execute_job raises: no such scenario, a PALM error, no output to read.
Raise(w) ==
    /\ pc[w] = "executing"
    /\ pc' = [pc EXCEPT ![w] = "failing"]
    /\ UNCHANGED <<table, held, loaded, beat, stopping, attempt, request, scan, bounds,
                   claims>>

\* (Mutants: one retry too many; retries that are not counted.)
MarkFailedOffByOne(w) ==
    /\ pc[w] = "failing"
    /\ job' = [job EXCEPT ![held[w]] =
                  IF loaded[w] <= MaxRetries THEN RequeuedWith(@, loaded[w] + 1)
                                             ELSE [@ EXCEPT !.status = "failed"]]
    /\ Release(w)
    /\ UNCHANGED <<bounds, claims>>

MarkFailedUncounted(w) ==
    /\ pc[w] = "failing"
    /\ job' = [job EXCEPT ![held[w]] =
                  IF loaded[w] < MaxRetries THEN Requeued(@)
                                            ELSE [@ EXCEPT !.status = "failed"]]
    /\ Release(w)
    /\ UNCHANGED <<bounds, claims>>

\* mark_failed decides on the retry_count that the session loaded at the claim.
MarkFailed(w) ==
    /\ pc[w] = "failing"
    /\ job' = [job EXCEPT ![held[w]] =
                  IF loaded[w] < MaxRetries THEN RequeuedWith(@, loaded[w] + 1)
                                            ELSE [@ EXCEPT !.status = "failed"]]
    /\ Release(w)
    /\ UNCHANGED <<bounds, claims>>

\* The heartbeat thread reads which job the loop has ...
Beat(w) ==
    /\ Beating(w) /\ beat[w] = None
    /\ beat' = [beat EXCEPT ![w] = held[w]]
    /\ UNCHANGED <<table, pc, held, loaded, stopping, attempt, request, scan, bounds,
                   claims>>

Renewed(row) == IF row.status = "running" THEN [row EXCEPT !.last_heartbeat = "fresh"]
                                          ELSE row

\* (Mutant: the heartbeat does not ask whose job it is.)
HeartbeatForAnyone(w) ==
    LET j == beat[w]
    IN  /\ j # None
        /\ job' = [job EXCEPT ![j] = Renewed(@)]
        /\ beat' = [beat EXCEPT ![w] = None]
        /\ UNCHANGED <<pc, held, loaded, stopping, attempt, request, scan, bounds, claims>>

\* ... and renews its lease, whatever the loop has done since, with an UPDATE that
\* holds only for the owner of a running job.
Heartbeat(w) ==
    LET j == beat[w]
    IN  /\ j # None
        /\ job' = [job EXCEPT ![j] = IF @.worker_id = w THEN Renewed(@) ELSE @]
        /\ beat' = [beat EXCEPT ![w] = None]
        /\ UNCHANGED <<pc, held, loaded, stopping, attempt, request, scan, bounds, claims>>

\* heartbeat_timeout seconds pass without a heartbeat.
Expire(j) ==
    /\ job[j].status = "running" /\ job[j].last_heartbeat = "fresh"
    /\ TimelyHeartbeats => ~ \E w \in Workers :
                               /\ held[w] = j /\ InHand(w) /\ ~stopping[w]
                               /\ job[j].worker_id = w
    /\ job' = [job EXCEPT ![j].last_heartbeat = "expired"]
    /\ UNCHANGED <<loop, request, scan, bounds, claims>>

-----------------------------------------------------------------------------
(* Database errors and departures.                                         *)

Fault == faults < MaxFaults /\ faults' = faults + 1 /\ UNCHANGED <<requests, departures>>

\* The refresh after the claim raises: _poll_and_execute ends, the row stays.
LoadFails(w) ==
    /\ pc[w] = "claimed"
    /\ Fault /\ Release(w)
    /\ UNCHANGED <<table, claims>>

\* mark_completed raises: if the commit failed the rollback expires the session's
\* copy, and mark_failed reads the row anew; if the UPDATE failed it does not.
CompleteFails(w) ==
    /\ pc[w] = "executing"
    /\ Fault
    /\ \E n \in {loaded[w], job[held[w]].retry_count} :
          loaded' = [loaded EXCEPT ![w] = n]
    /\ pc' = [pc EXCEPT ![w] = "failing"]
    /\ UNCHANGED <<table, held, beat, stopping, attempt, request, scan, claims>>

\* mark_failed raises: the loop logs the error and polls on.
MarkFailedFails(w) ==
    /\ pc[w] = "failing"
    /\ Fault /\ Release(w)
    /\ UNCHANGED <<table, claims>>

\* The UPDATE of a heartbeat raises: the thread logs the error and goes on.
HeartbeatFails(w) ==
    /\ beat[w] # None
    /\ Fault
    /\ beat' = [beat EXCEPT ![w] = None]
    /\ UNCHANGED <<table, pc, held, loaded, stopping, attempt, request, scan, claims>>

Depart ==
    /\ departures < MaxDepartures
    /\ departures' = departures + 1
    /\ UNCHANGED <<requests, faults>>

Crash(w) ==
    /\ Alive(w)
    /\ Depart
    /\ pc' = [pc EXCEPT ![w] = "down"]
    /\ held' = [held EXCEPT ![w] = None]
    /\ loaded' = [loaded EXCEPT ![w] = 0]
    /\ attempt' = [attempt EXCEPT ![w] = 0]
    /\ beat' = [beat EXCEPT ![w] = None]
    /\ stopping' = [stopping EXCEPT ![w] = FALSE]
    /\ UNCHANGED <<table, request, scan, claims>>

\* Worker.stop, at a signal: the poll loop ends with the job in hand, the
\* heartbeat thread at once.
Stop(w) ==
    /\ Alive(w) /\ ~stopping[w]
    /\ Depart
    /\ stopping' = [stopping EXCEPT ![w] = TRUE]
    /\ UNCHANGED <<table, pc, held, loaded, beat, attempt, request, scan, claims>>

Stopped(w) ==
    /\ pc[w] = "idle" /\ stopping[w]
    /\ pc' = [pc EXCEPT ![w] = "down"]
    /\ beat' = [beat EXCEPT ![w] = None]
    /\ stopping' = [stopping EXCEPT ![w] = FALSE]
    /\ UNCHANGED <<table, held, loaded, attempt, request, scan, bounds, claims>>

-----------------------------------------------------------------------------
(* The stale checker: requeue_stale_jobs reads the rows, changes its       *)
(* copies, and commits them.                                               *)

StaleScan ==
    /\ StaleCheckerRuns /\ scan = NoScan
    /\ \E j \in Jobs : IsStale(j)
    /\ scan' = [j \in Jobs |-> IF IsStale(j) THEN job[j] ELSE AbsentRow]
    /\ UNCHANGED <<table, loop, request, bounds, claims>>

StaleCommit ==
    /\ scan # NoScan
    /\ job' = [j \in Jobs |->
                  IF scan[j] = AbsentRow THEN job[j]
                  ELSE Flush(job[j], scan[j], StaleHandled(scan[j]))]
    /\ scan' = NoScan
    /\ UNCHANGED <<loop, request, bounds, claims>>

\* The commit fails: the session is closed, the next round scans again.
StaleCommitFails ==
    /\ scan # NoScan
    /\ Fault
    /\ scan' = NoScan
    /\ UNCHANGED <<table, loop, request, claims>>

-----------------------------------------------------------------------------

WorkerStep(w) ==
    \/ Start(w) \/ Poll(w) \/ Claim(w) \/ LoseClaim(w) \/ Load(w)
    \/ Complete(w) \/ Raise(w) \/ MarkFailed(w) \/ Stopped(w)
    \/ Beat(w) \/ Heartbeat(w)

WorkerTrouble(w) ==
    \/ LoadFails(w) \/ CompleteFails(w) \/ MarkFailedFails(w) \/ HeartbeatFails(w)
    \/ Crash(w) \/ Stop(w)

RequestStep(h) ==
    \/ \E j \in Jobs : CancelChecked(h, j) \/ RetryChecked(h, j)
    \/ RequestCommits(h)
    \/ RequestAborts(h)

Next ==
    \/ \E j \in Jobs : Submit(j) \/ Expire(j)
    \/ \E w \in Workers : WorkerStep(w) \/ WorkerTrouble(w)
    \/ \E h \in Handlers : RequestStep(h)
    \/ StaleScan \/ StaleCommit \/ StaleCommitFails

Spec == Init /\ [][Next]_vars

\* A worker that runs goes on.  (At every point of the loop one of these can be taken,
\* or none, and each of them leaves the point.)
LoopStep(w) ==
    \/ Poll(w) \/ Claim(w) \/ LoseClaim(w) \/ Load(w)
    \/ Complete(w) \/ Raise(w) \/ MarkFailed(w)

Progress(w) == WF_vars(LoopStep(w))

-----------------------------------------------------------------------------
(* Properties that hold under every schedule.                              *)

\* The tables and the programs' variables hold values of their types.
TypeOK ==
    /\ job \in [Jobs -> Row]
    /\ pc \in [Workers -> {"down", "idle", "selected", "claimed", "executing", "failing"}]
    /\ held \in [Workers -> Jobs \cup {None}]
    /\ \A w \in Workers : held[w] = None <=> pc[w] \in {"down", "idle"}
    /\ loaded \in [Workers -> Nat]
    /\ beat \in [Workers -> Jobs \cup {None}]
    /\ stopping \in [Workers -> BOOLEAN]
    /\ request \in [Handlers -> {NoRequest} \cup
                        [kind : {"cancel", "retry"}, job : Jobs, row : Row]]
    /\ scan \in [Jobs -> Row]
    /\ requests \in Nat /\ departures \in Nat /\ faults \in Nat
    /\ claims \in [Jobs -> Nat]
    /\ attempt \in [Workers -> Nat]

\* However cancel, retry, the stale checker and two workers interleave, a row that
\* says running names a worker and carries a heartbeat: the writers that clear
\* worker_id and last_heartbeat column by column never leave one behind that the
\* stale checker could not find and no heartbeat could match.
RunningIsOwned ==
    \A j \in Jobs :
        job[j].status = "running" =>
            job[j].worker_id \in Workers /\ job[j].last_heartbeat # "null"

\* Writers of stale copies never push a row past its budget: retry_count stays
\* within max_retries although mark_failed and requeue_stale_jobs count up from a
\* number that was read earlier.
RetryBudget == \A j \in Jobs : job[j].retry_count <= MaxRetries

\* A row never shows completed without a result to serve (get_job_results would
\* answer 404), and what a worker stored no cancel, retry or requeue takes away.
CompletedHasResult ==
    \A j \in Jobs : job[j].status = "completed" => job[j].result > 0

\* The two together: whichever writers meet on a row, what is left says of itself
\* what its readers (the stale checker, get_job_results) rely on.
RowsAreWhole == RunningIsOwned /\ CompletedHasResult

\* A job starts only from the queue and only by one claim: whatever a worker saw
\* when it read the queue, a job that was cancelled, taken or settled meanwhile does
\* not start.
StartsOnlyFromQueue ==
    [][\A j \in Jobs :
          claims'[j] # claims[j] \/ (job'[j].status = "running" /\ job[j].status # "running")
          => /\ job[j].status = "queued" /\ job'[j].status = "running"
             /\ claims'[j] = claims[j] + 1]_vars

\* The heartbeat thread goes by a job that it read some time ago, and the loop may
\* have left that job since.  Still an expired lease is renewed only for a worker that
\* the row names and, as long as the database has raised no error, has the job in hand:
\* whoever gives up a job without an error settles or requeues its row.  After an
\* error the lease of a job in nobody's hand can be renewed once, by the beat under way.
LeaseRenewedByOwner ==
    [][\A j \in Jobs :
          IsStale(j) /\ job'[j].status = "running" /\ job'[j].last_heartbeat = "fresh"
          => \E w \in Workers : /\ job[j].worker_id = w
                                /\ beat[w] = j /\ beat'[w] = None
                                /\ (InHand(w) /\ held[w] = j) \/ faults > 0]_vars

-----------------------------------------------------------------------------
(* Properties of a disciplined deployment: workers start while none is     *)
(* working, nobody cancels, retries come one at a time, and no stale       *)
(* checker runs (the code never starts one).                               *)

Disciplined ==
    /\ ~StartsOverlapWork /\ ~StaleCheckerRuns
    /\ "cancel" \notin RequestKinds
    /\ \A g, h \in Handlers : g = h

\* No job is executed by two workers at once, whatever crashes and is restarted:
\* the promise of claim_next_job that test_no_duplicate_claims samples.
NoDuplicateExecution ==
    \A v, w \in Workers :
        v # w /\ InHand(v) /\ InHand(w) => held[v] # held[w]

\* What a completed job serves is the outcome of its newest attempt.
ResultIsNewest ==
    \A j \in Jobs : job[j].status = "completed" => job[j].result = claims[j]

\* A job is not executed more often than its retry budget, the requests to retry it, and
\* the crashes and database errors explain: a failing job does not cycle for ever.
AttemptsAccounted ==
    \A j \in Jobs :
        claims[j] <= (MaxRetries + 1) * (requests + 1) + departures + faults

LifeOf(row) ==
    [status |-> row.status,
     owner  |-> IF row.status = "running" THEN row.worker_id ELSE None,
     tries  |-> row.retry_count]

Lifecycle == INSTANCE JobLifecycle WITH life <- [j \in Jobs |-> LifeOf(job[j])]

\* The queue implements the lifecycle of a job: it is handed to one worker at a time,
\* fails only when its retries are spent, and once completed never comes back.
ImplementsLifecycle == Lifecycle!Spec

-----------------------------------------------------------------------------
(* What a comment of the code says and the code does not do.               *)

\* worker.py:47, "Recover any jobs left running from a previous crash": a worker that
\* starts takes no job away from a worker that is executing it.
RecoverOnlyOrphans ==
    [][\A v, w \in Workers :
          pc[w] = "down" /\ pc'[w] = "idle" /\ InHand(v) /\ job[held[v]].worker_id = v
          => job'[held[v]] = job[held[v]]]_vars
=============================================================================
